---- MODULE Spec2Model ----
(***************************************************************************)
(* A model of the synthesis driver of cozy: the Implementation object of   *)
(* cozy/synthesis/impls.py, the helpers of cozy/synthesis/misc.py and the  *)
(* synthesize loop of cozy/synthesis/high_level_interface.py.              *)
(*                                                                         *)
(* The abstract state of a data structure is one number a in               *)
(* 0..StateMod-1.  An expression over the abstract state is a record       *)
(* [type, k, form] that denotes (a + k) % StateMod; two expressions with   *)
(* the same k and different form are semantically equal and syntactically  *)
(* different.  An operation adds its d to a.  A concrete expression (the   *)
(* return of a query implementation) is a sequence of terms [v, c], each   *)
(* reading the concrete variable v and denoting (value of v + c).          *)
(***************************************************************************)
EXTENDS Integers, Sequences, FiniteSets, TLC

VARIABLES spec, impl, drv, pc, emitted, astate, store, nrun, nimp

vars == <<spec, impl, drv, pc, emitted, astate, store, nrun, nimp>>

\* The abstract state ranges over 0..StateMod-1.
StateMod == 3
\* The number of improver solutions installed in one behaviour.
MaxImprove == 1
\* The number of operations executed on the emitted code in one behaviour.
MaxRun == 2
\* The number of steps the jobs of synthesize take in one behaviour: a step puts a
\* solution on the queue or ends the job.
MaxJobSteps == 3

States == 0 .. (StateMod - 1)

----------------------------------------------------------------------------
(* Syntax: expressions, statements, queries.                               *)

Exp(t, k, f) == [type |-> t, k |-> k % StateMod, form |-> f]

EVar(id) == [tag |-> "EVar", id |-> id]

ECall(func, args) == [tag |-> "ECall", func |-> func, args |-> args]

SNoOp == [tag |-> "SNoOp"]

SAssign(lhs, rhs) == [tag |-> "SAssign", lhs |-> lhs, rhs |-> rhs]

SDecl(var, val) == [tag |-> "SDecl", var |-> var, val |-> val]

SForEach(loop_var, iter, body) ==
    [tag |-> "SForEach", loop_var |-> loop_var, iter |-> iter, body |-> body]

SSeq(s1, s2) == [tag |-> "SSeq", s1 |-> s1, s2 |-> s2]

SIf(cond, then_branch, else_branch) ==
    [tag |-> "SIf", cond |-> cond, then_branch |-> then_branch, else_branch |-> else_branch]

SCall(target, func, args) == [tag |-> "SCall", target |-> target, func |-> func, args |-> args]

SMapDel(map, key) == [tag |-> "SMapDel", map |-> map, key |-> key]

SMapPut(map, key, value) == [tag |-> "SMapPut", map |-> map, key |-> key, value |-> value]

SMapUpdate(map, key, val_var, change) ==
    [tag |-> "SMapUpdate", map |-> map, key |-> key, val_var |-> val_var, change |-> change]

EMapGet(map, key) == [tag |-> "EMapGet", map |-> map, key |-> key]

\* EMakeMap2(bag, ELambda(var, val))
EMakeMap2(bag, var, val) == [tag |-> "EMakeMap2", bag |-> bag, var |-> var, val |-> val]

Query(name, visibility, args, assumptions, ret) ==
    [name |-> name, visibility |-> visibility, args |-> args,
     assumptions |-> assumptions, ret |-> ret]

\* A concrete variable: EVar(id).with_type(type).
CVar(id, type) == [id |-> id, type |-> type]

Range(s) == {s[i] : i \in 1 .. Len(s)}

\* The value an abstract expression denotes in abstract state a.
eval(e, a) == (a + e.k) % StateMod

\* free_vars of a query implementation: the concrete variables its return reads.
free_vars(q) == {q.ret[i].v : i \in 1 .. Len(q.ret)}

\* subst(ret, {v.id : aeq}) on a concrete return expression.
subst(ret, v, aeq) ==
    [i \in 1 .. Len(ret) |-> IF ret[i].v = v THEN [ret[i] EXCEPT !.v = aeq] ELSE ret[i]]

\* all_exps of a statement: the expressions that occur in it.
RECURSIVE all_exps(_)
all_exps(s) ==
    CASE s.tag = "SNoOp" -> {}
      [] s.tag = "SAssign" -> {s.rhs}
      [] s.tag = "SDecl" -> {s.val}
      [] s.tag = "SForEach" -> {s.iter} \cup all_exps(s.body)
      [] s.tag = "SSeq" -> all_exps(s.s1) \cup all_exps(s.s2)
      [] s.tag = "SIf" -> {s.cond} \cup all_exps(s.then_branch) \cup all_exps(s.else_branch)
      [] s.tag = "SCall" -> Range(s.args)
      [] s.tag = "SMapDel" -> {s.key}
      [] s.tag = "SMapPut" -> {s.key, s.value}
      [] s.tag = "SMapUpdate" -> {s.key} \cup all_exps(s.change)

\* free_vars of an expression
RECURSIVE exp_free_vars(_)
exp_free_vars(e) ==
    CASE e.tag = "EVar" -> {e.id}
      [] e.tag = "ECall" -> UNION {exp_free_vars(e.args[i]) : i \in 1 .. Len(e.args)}
      [] e.tag = "EMapGet" -> exp_free_vars(e.map) \cup exp_free_vars(e.key)
      [] e.tag = "EMakeMap2" ->
            exp_free_vars(e.bag) \cup (exp_free_vars(e.val) \ {e.var.id})

\* subst(e, {id : r}) on an expression
RECURSIVE exp_subst(_, _, _)
exp_subst(e, id, r) ==
    CASE e.tag = "EVar" -> IF e.id = id THEN r ELSE e
      [] e.tag = "ECall" ->
            [e EXCEPT !.args = [i \in 1 .. Len(e.args) |-> exp_subst(e.args[i], id, r)]]
      [] e.tag = "EMapGet" ->
            [e EXCEPT !.map = exp_subst(e.map, id, r), !.key = exp_subst(e.key, id, r)]
      [] e.tag = "EMakeMap2" ->
            [e EXCEPT !.bag = exp_subst(e.bag, id, r),
                      !.val = IF e.var.id = id THEN e.val ELSE exp_subst(e.val, id, r)]

\* subst(s, {id : r}) on a statement
RECURSIVE stm_subst(_, _, _)
stm_subst(s, id, r) ==
    CASE s.tag = "SNoOp" -> s
      [] s.tag = "SSeq" ->
            [s EXCEPT !.s1 = stm_subst(s.s1, id, r), !.s2 = stm_subst(s.s2, id, r)]
      [] s.tag = "SDecl" -> [s EXCEPT !.val = exp_subst(s.val, id, r)]
      [] s.tag = "SIf" ->
            [s EXCEPT !.cond = exp_subst(s.cond, id, r),
                      !.then_branch = stm_subst(s.then_branch, id, r),
                      !.else_branch = stm_subst(s.else_branch, id, r)]
      [] s.tag = "SForEach" ->
            [s EXCEPT !.iter = exp_subst(s.iter, id, r),
                      !.body = IF s.loop_var.id = id THEN s.body
                               ELSE stm_subst(s.body, id, r)]
      [] s.tag = "SAssign" -> [s EXCEPT !.rhs = exp_subst(s.rhs, id, r)]
      [] s.tag = "SCall" ->
            [s EXCEPT !.args = [i \in 1 .. Len(s.args) |-> exp_subst(s.args[i], id, r)]]
      [] s.tag = "SMapDel" -> [s EXCEPT !.key = exp_subst(s.key, id, r)]
      [] s.tag = "SMapPut" ->
            [s EXCEPT !.key = exp_subst(s.key, id, r), !.value = exp_subst(s.value, id, r)]
      [] s.tag = "SMapUpdate" ->
            [s EXCEPT !.key = exp_subst(s.key, id, r),
                      !.change = IF s.val_var.id = id THEN s.change
                                 ELSE stm_subst(s.change, id, r)]

\* dict(q.args): argument name -> type, a later duplicate overriding an earlier one.
dict(args) ==
    [n \in {args[i][1] : i \in 1 .. Len(args)} |->
        args[CHOOSE i \in 1 .. Len(args) :
                /\ args[i][1] = n
                /\ \A j \in 1 .. Len(args) : args[j][1] = n => j <= i][2]]

\* find_one: the index of the first element of s that satisfies P, 0 when none does.
find_one(s, P(_)) ==
    IF \E i \in 1 .. Len(s) : P(s[i])
    THEN CHOOSE i \in 1 .. Len(s) : P(s[i]) /\ \A j \in 1 .. (i - 1) : ~P(s[j])
    ELSE 0

----------------------------------------------------------------------------
(* Collaborators: the solver, the simplifier, the handle analyses and the  *)
(* derivative.                                                             *)

\* valid(EEq(e, ee)) for two abstract expressions of one type.
valid_EEq(e, ee) == \A a \in States : eval(e, a) = eval(ee, a)

\* alpha_equivalent(e, ee): syntactic equality.
alpha_equivalent(e, ee) == e = ee

\* The propositions a list of assumptions asserts (EAll).
EAll(assumptions) == {assumptions[i].p : i \in 1 .. Len(assumptions)}

\* valid(EEq(EAll(a1), EAll(a2))): the two conjunctions assert the same.
valid_iff(a1, a2) == EAll(a1) = EAll(a2)

\* valid(EImplies(EAll(a1), EAll(a2))).
valid_implies(a1, a2) == EAll(a2) \subseteq EAll(a1)

\* simplify on an expression: its canonical form, with the same meaning.
simplify(e) == [e EXCEPT !.form = 0]

\* simplify on an assumption: the same proposition in its smallest form.
simplify_assumption(a) == [a EXCEPT !.size = 1]

\* implicit_handle_assumptions(reachable_handles_at_method(spec, q)).
implicit_handle_assumptions(q) ==
    IF spec.handles # <<>> THEN <<[p |-> "handles_unique", size |-> 2]>> ELSE <<>>

\* What op.body adds to the value of e: op.hd to the value of a handle, op.d to an
\* expression over the abstract state.
body_delta(op, e) == (IF e.type = "Val" THEN op.hd ELSE op.d) % StateMod

ArgNames(args) == [i \in 1 .. Len(args) |-> EVar(args[i][1])]

\* inc.mutate_in_place(lhs, e, op.body, ...): the statement that maintains lhs, which
\* tracks e, when op runs, and the helper queries (subgoals_out) it calls.
mutate_in_place(lhs, e, op, extra_args, extra_assumptions, fresh) ==
    IF body_delta(op, e) = 0
    THEN [stm |-> SNoOp, subqueries |-> <<>>, fresh |-> fresh]
    ELSE LET args == op.args \o extra_args
             sub_q == Query(fresh, "Internal", args,
                            op.assumptions \o extra_assumptions,
                            Exp(IF e.type = "Val" THEN "Int" ELSE e.type,
                                e.k + body_delta(op, e), 1))
         IN [stm |-> SAssign(lhs, ECall(sub_q.name, ArgNames(args))),
             subqueries |-> <<sub_q>>,
             fresh |-> fresh + 1]

----------------------------------------------------------------------------
(* cozy/synthesis/misc.py                                                  *)

\* A variant that compares the argument lists position by position, by type only.
queries_equivalent_positional(q1, q2) ==
    IF q1.ret.type # q2.ret.type THEN FALSE
    ELSE IF [i \in 1 .. Len(q1.args) |-> q1.args[i][2]]
                # [i \in 1 .. Len(q2.args) |-> q2.args[i][2]] THEN FALSE
    ELSE /\ valid_iff(q1.assumptions, q2.assumptions)
         /\ valid_EEq(q1.ret, q2.ret)

queries_equivalent(q1, q2) ==
    IF q1.ret.type # q2.ret.type THEN FALSE
    ELSE IF dict(q1.args) # dict(q2.args) THEN FALSE
    ELSE /\ valid_iff(q1.assumptions, q2.assumptions)
         /\ valid_EEq(q1.ret, q2.ret)

----------------------------------------------------------------------------
(* cozy/synthesis/impls.py: class Implementation.  An implementation is a  *)
(* record [concretization, query_specs, query_impls, updates,              *)
(* handle_updates, fresh, log, calls, removed]: fresh is the counter       *)
(* behind fresh_name and fresh_var; log and calls are the calls of         *)
(* _add_subquery and of set_impl made by the current step, with what they  *)
(* returned; removed holds the queries the current step has collected.     *)

\* Implementation(spec, [], [], OrderedDict(), defaultdict(SNoOp), defaultdict(SNoOp))
Implementation ==
    [concretization |-> <<>>, query_specs |-> <<>>, query_impls |-> <<>>,
     updates |-> <<>>, handle_updates |-> <<>>, fresh |-> 10, log |-> <<>>,
     calls |-> <<>>, removed |-> {}]

op_specs == spec.ops

query_names(I) == {I.query_specs[i].name : i \in 1 .. Len(I.query_specs)}

impl_names(I) == {I.query_impls[i].name : i \in 1 .. Len(I.query_impls)}

concrete_vars(I) == {I.concretization[i].v : i \in 1 .. Len(I.concretization)}

\* self.query_impls[name]
impl_of(I, name) ==
    I.query_impls[CHOOSE i \in 1 .. Len(I.query_impls) : I.query_impls[i].name = name]

\* the query of query_specs called name
spec_of(I, name) ==
    I.query_specs[CHOOSE i \in 1 .. Len(I.query_specs) : I.query_specs[i].name = name]

\* d[key] on a defaultdict(SNoOp), read only
get_stm(d, key) == IF key \in DOMAIN d THEN d[key] ELSE SNoOp

\* d[key] = stm
put_stm(d, key, stm) == [k \in (DOMAIN d) \cup {key} |-> IF k = key THEN stm ELSE d[k]]

\* self.query_impls[q.name] = qi on an OrderedDict: an existing key keeps its place.
put_impl(query_impls, qi) ==
    IF \E i \in 1 .. Len(query_impls) : query_impls[i].name = qi.name
    THEN [i \in 1 .. Len(query_impls) |->
            IF query_impls[i].name = qi.name THEN qi ELSE query_impls[i]]
    ELSE Append(query_impls, qi)

\* rewrite_ret(q, lambda prev: ret, keep_assumptions=False)
rewrite_ret(q, ret) == [name |-> q.name, args |-> q.args, assumptions |-> <<>>, ret |-> ret]

\* A variant that takes whatever the simplifier returns.
simplified_always(e, ee) == ee

\* "return ee if ee.size() < e.size() else e"
simplified_or_ignored(e, ee) == IF ee.size < e.size THEN ee ELSE e

simplify_or_ignore(e) == simplified_or_ignored(e, simplify_assumption(e))

\* queries_used_by(stm): the calls in stm to queries of query_specs.
queries_used_by(I, stm) ==
    {e.func : e \in {x \in all_exps(stm) : x.tag = "ECall" /\ x.func \in query_names(I)}}

\* A variant that keeps the arguments in the order of the call it rewrites.
Repl_visit_ECall_same_args(e, sub_name, qq_name, arg_reorder) ==
    IF e.tag = "ECall" /\ e.func = sub_name THEN ECall(qq_name, e.args) ELSE e

\* Repl().visit(used_by) of _add_subquery: calls of sub_name become calls of qq_name.
Repl_visit_ECall(e, sub_name, qq_name, arg_reorder) ==
    IF e.tag = "ECall" /\ e.func = sub_name
    THEN ECall(qq_name, [i \in 1 .. Len(arg_reorder) |-> e.args[arg_reorder[i]]])
    ELSE e

RECURSIVE Repl(_, _, _, _)
Repl(s, sub_name, qq_name, arg_reorder) ==
    CASE s.tag = "SNoOp" -> s
      [] s.tag = "SAssign" ->
            [s EXCEPT !.rhs = Repl_visit_ECall(s.rhs, sub_name, qq_name, arg_reorder)]
      [] s.tag = "SDecl" ->
            [s EXCEPT !.val = Repl_visit_ECall(s.val, sub_name, qq_name, arg_reorder)]
      [] s.tag = "SForEach" ->
            [s EXCEPT !.iter = Repl_visit_ECall(s.iter, sub_name, qq_name, arg_reorder),
                      !.body = Repl(s.body, sub_name, qq_name, arg_reorder)]

\* [x[0] for x in sub_q.args].index(a): the first position of name a in args.
index_of(args, a) ==
    CHOOSE i \in 1 .. Len(args) :
        args[i][1] = a /\ \A j \in 1 .. (i - 1) : args[j][1] # a

\* A variant that leaves the duplicated variables in the return expression.
coalesce_nothing(I, rep, ret, i) == ret

\* The loop "finding duplicated state vars" of set_impl, from entry i of rep on: the
\* return expression with every duplicated variable replaced by the stored one.
RECURSIVE coalesce(_, _, _, _)
coalesce(I, rep, ret, i) ==
    IF i > Len(rep) THEN ret
    ELSE LET e == rep[i].e
             aeq == find_one(I.concretization,
                             LAMBDA c : e.type = c.e.type /\ valid_EEq(e, c.e))
         IN coalesce(I, rep,
                     IF aeq # 0 THEN subst(ret, rep[i].v, I.concretization[aeq].v) ELSE ret,
                     i + 1)

\* to_remove of set_impl
to_remove(I, rep) ==
    {rep[i].v : i \in {j \in 1 .. Len(rep) :
        \E c \in Range(I.concretization) :
            rep[j].e.type = c.e.type /\ valid_EEq(rep[j].e, c.e)}}

RECURSIVE set_impl(_, _, _, _)
RECURSIVE add_query(_, _)
RECURSIVE _add_subquery(_, _, _)
RECURSIVE add_subqueries(_, _, _, _)
RECURSIVE add_subqueries_from(_, _, _)
RECURSIVE incrementalize(_, _, _, _)

\* for sub_q in subqueries: state_update_stm = self._add_subquery(sub_q, state_update_stm)
add_subqueries(I, subqueries, stm, i) ==
    IF i > Len(subqueries) THEN [impl |-> I, stm |-> stm]
    ELSE add_subqueries_from(_add_subquery(I, subqueries[i], stm), subqueries, i + 1)

\* the rest of that loop, after a call of _add_subquery has returned r
add_subqueries_from(r, subqueries, i) == add_subqueries(r.impl, subqueries, r.stm, i)

\* self.updates[key] = state_update_stm, r being what the loop over the subqueries left
set_update(r, key) == [r.impl EXCEPT !.updates = put_stm(@, key, r.stm)]

\* The loop "for op in self.op_specs: for new_member, projection in rep" of set_impl,
\* from operation oi and entry ri of rep on.
incrementalize(I, rep, oi, ri) ==
    IF oi > Len(op_specs) THEN I
    ELSE IF ri > Len(rep) THEN incrementalize(I, rep, oi + 1, 1)
    ELSE LET op == op_specs[oi]
             m == mutate_in_place(rep[ri].v, rep[ri].e, op, <<>>, <<>>, I.fresh)
         IN incrementalize(
                set_update(add_subqueries([I EXCEPT !.fresh = m.fresh], m.subqueries,
                                          m.stm, 1),
                           <<rep[ri].v, op.name>>),
                rep, oi, ri + 1)

\* The record of a call of set_impl that started in I and returned R.
set_impl_returns(R, I, q, rep, ret, ret2, rep2) ==
    [R EXCEPT !.calls = Append(@,
        [q |-> q, rep |-> rep, ret |-> ret, concretization |-> I.concretization,
         installed |-> ret2, appended |-> rep2,
         concretization_after |-> R.concretization,
         updated |-> {k[1] : k \in DOMAIN R.updates}])]

set_impl(I, q, rep, ret) ==
    LET rm == to_remove(I, rep)
        ret2 == coalesce(I, rep, ret, 1)
        rep2 == SelectSeq(rep, LAMBDA x : x.v \notin rm)
        I1 == [I EXCEPT !.concretization = @ \o rep2,
                        !.query_impls = put_impl(@, rewrite_ret(q, ret2))]
    IN set_impl_returns(incrementalize(I1, rep2, 1, 1), I, q, rep, ret, ret2, rep2)

add_query(I, q) ==
    LET v == CVar(I.fresh, q.ret.type)
        \* unpack_representation(repair_well_formedness(q.ret, ...)): the whole return
        \* expression becomes one state variable
        rep == <<[v |-> v, e |-> q.ret]>>
        ret == <<[v |-> v, c |-> 0]>>
        I1 == [I EXCEPT !.query_specs = Append(@, q), !.fresh = @ + 1]
    IN set_impl(I1, q, rep, ret)

\* Two queries that are equal up to their names.
alpha_equivalent_queries(q1, q2) ==
    /\ q1.args = q2.args
    /\ q1.assumptions = q2.assumptions
    /\ alpha_equivalent(q1.ret, q2.ret)

\* A variant that falls back to alpha-equivalence when the option is off.
duplicates_or_alpha_equivalent(qq, sub_q) ==
    IF spec.dedup_queries THEN queries_equivalent(qq, sub_q)
    ELSE alpha_equivalent_queries(qq, sub_q)

\* The test of find_one in _add_subquery:
\* dedup_queries.value and queries_equivalent(qq, sub_q, ...)
duplicates(qq, sub_q) == spec.dedup_queries /\ queries_equivalent(qq, sub_q)

\* The record of a call of _add_subquery that started in I and left I1.
_add_subquery_returns(I1, I, sub_q, qq, used_by, out) ==
    [impl |-> [I1 EXCEPT !.log = Append(@,
                 [sub_q |-> sub_q, qq |-> qq, used_by |-> used_by,
                  query_specs |-> I.query_specs, result |-> out,
                  in_query_specs |-> sub_q.name \in query_names(I1),
                  in_query_impls |-> sub_q.name \in impl_names(I1)])],
     stm |-> out]

_add_subquery(I, sub_q0, used_by) ==
    LET new_a == implicit_handle_assumptions(sub_q0)
        a1 == IF ~valid_implies(sub_q0.assumptions, new_a)
              THEN sub_q0.assumptions \o new_a ELSE sub_q0.assumptions
        a2 == [i \in 1 .. Len(a1) |-> simplify_or_ignore(a1[i])]
        sub_q == [sub_q0 EXCEPT !.assumptions = a2, !.ret = simplify(sub_q0.ret)]
        qq == find_one(I.query_specs, LAMBDA x : duplicates(x, sub_q))
    IN IF qq # 0
       THEN LET q == I.query_specs[qq]
                arg_reorder == [i \in 1 .. Len(q.args) |-> index_of(sub_q.args, q.args[i][1])]
            IN _add_subquery_returns(I, I, sub_q, <<q>>, used_by,
                                     Repl(used_by, sub_q.name, q.name, arg_reorder))
       ELSE _add_subquery_returns(add_query(I, sub_q), I, sub_q, <<>>, used_by, used_by)

\* reachable_handles_at_method(self.spec, op): handle type -> bag of reachable handles
reachable_handles_at_method(op) == spec.handles

\* "if state_update_stm != SNoOp()": the loop over modified_handles around the update
wrap_handle_update(r, h, modified_handles, query_vars) ==
    IF r.stm # SNoOp
    THEN _add_subquery(r.impl, modified_handles,
             SForEach(h, ECall(modified_handles.name, ArgNames(query_vars)), r.stm))
    ELSE r

\* self.handle_updates[(t, op.name)] = state_update_stm
set_handle_update(r, key) == [r.impl EXCEPT !.handle_updates = put_stm(@, key, r.stm)]

\* The body of the loop "for t, bag in handles.items()" of _setup_handle_updates.
setup_handle_update(I, op, hd) ==
    LET h == CVar(I.fresh, hd.t)
        lval == Exp("Val", 0, 0)
        query_vars == op.args
        modified_handles == Query(I.fresh + 1, "Internal", query_vars, op.assumptions,
                                  Exp(hd.bag.type, hd.bag.k, 1))
        m == mutate_in_place([id |-> h.id, type |-> "Val"], lval, op,
                             <<<<h.id, h.type>>>>,
                             <<[p |-> "h_in_bag", size |-> 2],
                               [p |-> "h_in_modified_handles", size |-> 3]>>,
                             I.fresh + 2)
    IN set_handle_update(
          wrap_handle_update(
              add_subqueries([I EXCEPT !.fresh = m.fresh], m.subqueries, m.stm, 1),
              h, modified_handles, query_vars),
          <<hd.t, op.name>>)

\* A variant that sets up no handle update.
_setup_handle_updates_skipped(I, oi, hi) == I

\* _setup_handle_updates, from operation oi and handle type hi on.
RECURSIVE _setup_handle_updates(_, _, _)
_setup_handle_updates(I, oi, hi) ==
    IF oi > Len(op_specs) THEN I
    ELSE IF hi > Len(reachable_handles_at_method(op_specs[oi]))
    THEN _setup_handle_updates(I, oi + 1, 1)
    ELSE _setup_handle_updates(
            setup_handle_update(I, op_specs[oi], reachable_handles_at_method(op_specs[oi])[hi]),
            oi, hi + 1)

op_names == {op_specs[i].name : i \in 1 .. Len(op_specs)}

\* deps of cleanup, composed: the queries reached in one round from the queries Q
\* (query -> free vars of its implementation -> their update statements -> queries).
vars_read_by(I, Q) == UNION {free_vars(impl_of(I, q)) : q \in Q \cap impl_names(I)}

cleanup_deps(I, Q) ==
    UNION {queries_used_by(I, get_stm(I.updates, <<v, o>>)) :
              v \in vars_read_by(I, Q), o \in op_names}

\* g.reachable_nodes(roots), restricted to the query names
RECURSIVE reachable_nodes(_, _)
reachable_nodes(I, Q) ==
    LET Q2 == Q \cup cleanup_deps(I, Q)
    IN IF Q2 = Q THEN Q ELSE reachable_nodes(I, Q2)

\* A variant whose roots are the public queries alone.
cleanup_roots_public(I) ==
    {I.query_specs[i].name :
        i \in {j \in 1 .. Len(I.query_specs) : I.query_specs[j].visibility = "Public"}}

\* A variant whose roots are the queries the handle updates call alone.
cleanup_roots_handle_updates(I) ==
    UNION {queries_used_by(I, I.handle_updates[k]) : k \in DOMAIN I.handle_updates}

cleanup_roots(I) ==
    {I.query_specs[i].name :
        i \in {j \in 1 .. Len(I.query_specs) : I.query_specs[j].visibility = "Public"}}
    \cup UNION {queries_used_by(I, I.handle_updates[k]) : k \in DOMAIN I.handle_updates}

\* A variant that leaves the update statements of removed variables in place.
cleanup_keep_updates(I) ==
    LET queries_to_keep == reachable_nodes(I, cleanup_roots(I))
        query_impls == SelectSeq(I.query_impls, LAMBDA q : q.name \in queries_to_keep)
    IN [I EXCEPT !.query_specs = SelectSeq(@, LAMBDA q : q.name \in queries_to_keep),
                 !.query_impls = query_impls,
                 !.concretization = SelectSeq(@,
                        LAMBDA c : \E q \in Range(query_impls) : c.v \in free_vars(q)),
                 !.removed = (query_names(I) \cup impl_names(I)) \ queries_to_keep]

\* A variant that removes the specifications and keeps every implementation.
cleanup_keep_impls(I) ==
    LET queries_to_keep == reachable_nodes(I, cleanup_roots(I))
    IN [I EXCEPT !.query_specs = SelectSeq(@, LAMBDA q : q.name \in queries_to_keep),
                 !.removed = (query_names(I) \cup impl_names(I)) \ queries_to_keep]

cleanup(I) ==
    LET queries_to_keep == reachable_nodes(I, cleanup_roots(I))
        \* deps reads self.updates[(thing, op.name)], which a defaultdict creates
        touched == {<<v, o>> : v \in concrete_vars(I) \cup vars_read_by(I, queries_to_keep),
                               o \in op_names}
        updates1 == [k \in (DOMAIN I.updates) \cup touched |-> get_stm(I.updates, k)]
        query_specs == SelectSeq(I.query_specs, LAMBDA q : q.name \in queries_to_keep)
        query_impls == SelectSeq(I.query_impls, LAMBDA q : q.name \in queries_to_keep)
        concretization == SelectSeq(I.concretization,
                              LAMBDA c : \E q \in Range(query_impls) : c.v \in free_vars(q))
        kept == {concretization[i].v : i \in 1 .. Len(concretization)}
        updates == [k \in {x \in DOMAIN updates1 : x[1] \in kept} |-> updates1[k]]
    IN [I EXCEPT !.query_specs = query_specs, !.query_impls = query_impls,
                 !.concretization = concretization, !.updates = updates,
                 !.removed = (query_names(I) \cup impl_names(I)) \ queries_to_keep]

----------------------------------------------------------------------------
(* cozy/synthesis/misc.py: pull_temps.  exp_is_bad is given as the set of  *)
(* the bad expressions of the statement.                                   *)

\* pull of pull_temps: a bad expression becomes a fresh temporary declared in decls.
pull(e, bad, fresh) ==
    IF e \in bad
    THEN [e |-> EVar(fresh), decls |-> <<SDecl(fresh, e)>>, fresh |-> fresh + 1]
    ELSE [e |-> e, decls |-> <<>>, fresh |-> fresh]

\* cozy.common.partition(d_tmp, lambda d: var in free_vars(d.val)): to_fix and ok
to_fix_of(d_tmp, var) == SelectSeq(d_tmp, LAMBDA d : var.id \in exp_free_vars(d.val))

ok_of(d_tmp, var) == SelectSeq(d_tmp, LAMBDA d : var.id \notin exp_free_vars(d.val))

\* The loop "for d in to_fix" of the SForEach case, from declaration i on: the
\* declarations of the maps, the name of map i being fresh + i - 1.
map_decls(to_fix, bag, loop_var, fresh) ==
    [i \in 1 .. Len(to_fix) |->
        SDecl(fresh + i - 1, EMakeMap2(bag, loop_var, to_fix[i].val))]

\* The same loop: the body, with each temporary replaced by a read of its map.
RECURSIVE fix_body(_, _, _, _, _)
fix_body(body, to_fix, i, loop_var, fresh) ==
    IF i > Len(to_fix) THEN body
    ELSE fix_body(stm_subst(body, to_fix[i].var, EMapGet(EVar(fresh + i - 1), loop_var)),
                  to_fix, i + 1, loop_var, fresh)

\* The SForEach case once the iterated bag and the body have been treated.
foreach_returns(s, bag, rb) ==
    [stm |-> SForEach(s.loop_var, bag.e,
                      fix_body(rb.stm, to_fix_of(rb.decls, s.loop_var), 1, s.loop_var,
                               rb.fresh)),
     decls |-> bag.decls \o ok_of(rb.decls, s.loop_var) \o
               map_decls(to_fix_of(rb.decls, s.loop_var), bag.e, s.loop_var, rb.fresh),
     fresh |-> rb.fresh + Len(to_fix_of(rb.decls, s.loop_var))]

\* The SMapUpdate case once the key and the change have been treated.
mapupdate_returns(s, key, rc) ==
    [stm |-> SMapUpdate(s.map, key.e, s.val_var, rc.stm),
     decls |-> key.decls \o
               [i \in 1 .. Len(rc.decls) |->
                   IF s.val_var.id \in exp_free_vars(rc.decls[i].val)
                   THEN SDecl(rc.decls[i].var,
                              exp_subst(rc.decls[i].val, s.val_var.id,
                                        EMapGet(s.map, key.e)))
                   ELSE rc.decls[i]],
     fresh |-> rc.fresh]

\* tuple(pull(arg) for arg in s.args), from argument i on
RECURSIVE pull_args(_, _, _, _)
pull_args(args, i, bad, fresh) ==
    IF i > Len(args) THEN [es |-> <<>>, decls |-> <<>>, fresh |-> fresh]
    ELSE LET r == pull(args[i], bad, fresh)
             rest == pull_args(args, i + 1, bad, r.fresh)
         IN [es |-> <<r.e>> \o rest.es, decls |-> r.decls \o rest.decls,
             fresh |-> rest.fresh]

RECURSIVE pull_temps(_, _, _)

\* The SSeq case once s1 has been treated, and once both have.
seq_returns(r1, r2) ==
    [stm |-> SSeq(r1.stm, r2.stm), decls |-> r1.decls \o r2.decls, fresh |-> r2.fresh]

seq_second(s, bad, r1) == seq_returns(r1, pull_temps(s.s2, bad, r1.fresh))

\* The SIf case once the condition and the branches have been treated.
if_returns(cond, r1, r2) ==
    [stm |-> SIf(cond.e, r1.stm, r2.stm), decls |-> cond.decls \o r1.decls \o r2.decls,
     fresh |-> r2.fresh]

if_second(s, bad, cond, r1) ==
    if_returns(cond, r1, pull_temps(s.else_branch, bad, r1.fresh))

if_first(s, bad, cond) == if_second(s, bad, cond, pull_temps(s.then_branch, bad, cond.fresh))

foreach_body(s, bad, bag) == foreach_returns(s, bag, pull_temps(s.body, bad, bag.fresh))

mapupdate_change(s, bad, key) ==
    mapupdate_returns(s, key, pull_temps(s.change, bad, key.fresh))

mapput_returns(s, key, value) ==
    [stm |-> SMapPut(s.map, key.e, value.e), decls |-> key.decls \o value.decls,
     fresh |-> value.fresh]

mapput_value(s, bad, key) == mapput_returns(s, key, pull(s.value, bad, key.fresh))

pull_temps(s, bad, fresh) ==
    CASE s.tag = "SNoOp" -> [stm |-> s, decls |-> <<>>, fresh |-> fresh]
      [] s.tag = "SSeq" -> seq_second(s, bad, pull_temps(s.s1, bad, fresh))
      [] s.tag = "SDecl" ->
            LET r == pull(s.val, bad, fresh)
            IN [stm |-> SDecl(s.var, r.e), decls |-> r.decls, fresh |-> r.fresh]
      [] s.tag = "SIf" -> if_first(s, bad, pull(s.cond, bad, fresh))
      [] s.tag = "SForEach" -> foreach_body(s, bad, pull(s.iter, bad, fresh))
      [] s.tag = "SAssign" ->
            LET r == pull(s.rhs, bad, fresh)
            IN [stm |-> SAssign(s.lhs, r.e), decls |-> r.decls, fresh |-> r.fresh]
      [] s.tag = "SCall" ->
            LET r == pull_args(s.args, 1, bad, fresh)
            IN [stm |-> SCall(s.target, s.func, r.es), decls |-> r.decls,
                fresh |-> r.fresh]
      [] s.tag = "SMapDel" ->
            LET r == pull(s.key, bad, fresh)
            IN [stm |-> SMapDel(s.map, r.e), decls |-> r.decls, fresh |-> r.fresh]
      [] s.tag = "SMapPut" -> mapput_value(s, bad, pull(s.key, bad, fresh))
      [] s.tag = "SMapUpdate" -> mapupdate_change(s, bad, pull(s.key, bad, fresh))

----------------------------------------------------------------------------
(* cozy/graph_theory.py (DirectedGraph), as far as Implementation.code     *)
(* uses it: a graph is its set of edges <<from, to>> over the nodes.       *)

successors(E, S) == {e[2] : e \in {x \in E : x[1] \in S}}

RECURSIVE reach_from(_, _)
reach_from(E, S) ==
    LET S2 == S \cup successors(E, S)
    IN IF S2 = S THEN S ELSE reach_from(E, S2)

acyclic(E, N) == \A n \in N : n \notin reach_from(E, successors(E, {n}))

\* g.minimum_feedback_arc_set(): a set of edges whose deletion leaves no cycle and
\* none of which can be kept.
minimum_feedback_arc_set(E, N) ==
    {F \in SUBSET E :
        /\ acyclic(E \ F, N)
        /\ \A f \in F : ~acyclic((E \ F) \cup {f}, N)}

\* g.toposort(): the topological order of the nodes under the edges E that takes,
\* at each step, the first node of the list nodes that no remaining node points to.
RECURSIVE toposort(_, _)
toposort(E, nodes) ==
    IF nodes = <<>> THEN <<>>
    ELSE LET N == Range(nodes)
             free(i) == \A e \in E : e[2] = nodes[i] => e[1] \notin N
             i == CHOOSE x \in 1 .. Len(nodes) : free(x) /\ \A j \in 1 .. (x - 1) : ~free(j)
         IN <<nodes[i]>> \o toposort(E, [j \in 1 .. (Len(nodes) - 1) |->
                                            IF j < i THEN nodes[j] ELSE nodes[j + 1]])

----------------------------------------------------------------------------
(* Implementation.code                                                     *)

state_read_by_query(I, name) == free_vars(impl_of(I, name))

\* state_used_during_update(v1) for operator
state_used_during_update(I, operator, v1) ==
    UNION {state_read_by_query(I, q) :
             q \in queries_used_by(I, get_stm(I.updates, <<v1, operator.name>>))}

\* The edges of the graph g built for operator.
order_constraints(I, operator) ==
    {<<v1, v2>> \in concrete_vars(I) \X concrete_vars(I) :
        v2 \in state_used_during_update(I, operator, v1)}

\* problematic(e) of code, for the things updated so far
problematic(I, things_updated, e) ==
    /\ e.tag = "ECall"
    /\ e.func \in query_names(I)
    /\ things_updated \cap state_read_by_query(I, e.func) # {}

\* The loop "Lift auxiliary declarations as needed" for operator, from position i of
\* order on: temps are the declarations of temps[operator.name], updates the
\* statements updates[(v, operator.name)].
RECURSIVE lift(_, _, _, _, _)
lift(I, operator, order, i, acc) ==
    IF i > Len(order) THEN acc
    ELSE LET v == order[i]
             things_updated == {order[j] : j \in 1 .. i}
             stm == get_stm(I.updates, <<v, operator.name>>)
             r == pull_temps(stm,
                             {e \in all_exps(stm) : problematic(I, things_updated, e)},
                             acc.fresh)
         IN lift(I, operator, order, i + 1,
                 [temps |-> acc.temps \o r.decls,
                  updates |-> put_stm(acc.updates, v, r.stm),
                  fresh |-> r.fresh])

\* The schedules the graph library may return, from operator i on, when the nodes
\* are listed in the order nodes: per operator the feedback arcs it deletes and the
\* topological order of what is left, which lists the nodes for the next operator.
RECURSIVE schedules(_, _, _)
schedules(I, i, nodes) ==
    IF i > Len(op_specs) THEN {<<>>}
    ELSE LET E == order_constraints(I, op_specs[i])
         IN UNION {LET o == toposort(E \ F, nodes)
                   IN {<<[edges_to_break |-> F, order |-> o]>> \o r :
                          r \in schedules(I, i + 1, o)}
                   : F \in minimum_feedback_arc_set(E, Range(nodes))}

\* The first loop of code: per operator, its lifted temporaries and rewritten updates.
RECURSIVE lift_all(_, _, _, _)
lift_all(I, sched, i, fresh) ==
    IF i > Len(op_specs) THEN <<>>
    ELSE LET r == lift(I, op_specs[i], sched[i].order, 1,
                       [temps |-> <<>>, updates |-> <<>>, fresh |-> fresh])
         IN <<r>> \o lift_all(I, sched, i + 1, r.fresh)

\* The handle updates of one operation, in the order of handle_updates.items().
handle_stms(I, op) ==
    LET hs == reachable_handles_at_method(op)
        present == SelectSeq(hs, LAMBDA h : <<h.t, op.name>> \in DOMAIN I.handle_updates)
    IN [i \in 1 .. Len(present) |-> I.handle_updates[<<present[i].t, op.name>>]]

\* A variant whose operations keep the assumptions of the input operations.
code_keep_assumptions(I, sched) ==
    LET lifted == lift_all(I, sched, 1, I.fresh)
        _concretization_functions ==
            IF Len(op_specs) = 0
            THEN [i \in 1 .. Len(I.concretization) |-> I.concretization[i].v]
            ELSE sched[Len(op_specs)].order
        new_op(i) ==
            [name |-> op_specs[i].name,
             args |-> op_specs[i].args,
             assumptions |-> op_specs[i].assumptions,
             temps |-> lifted[i].temps,
             stms |-> [j \in 1 .. Len(_concretization_functions) |->
                          [v |-> _concretization_functions[j],
                           stm |-> lifted[i].updates[_concretization_functions[j]]]],
             handle_stms |-> handle_stms(I, op_specs[i])]
    IN [name |-> spec.name, types |-> spec.types, extern_funcs |-> spec.extern_funcs,
        statevars |-> [i \in 1 .. Len(I.concretization) |->
                          <<I.concretization[i].v.id, I.concretization[i].e.type>>],
        assumptions |-> <<>>,
        queries |-> I.query_impls,
        ops |-> [i \in 1 .. Len(op_specs) |-> new_op(i)],
        header |-> spec.header, footer |-> spec.footer, docstring |-> spec.docstring]

\* code: the specification Implementation.code returns under the schedule sched.
\* After the first loop _concretization_functions is the order of the last operator.
code(I, sched) ==
    LET lifted == lift_all(I, sched, 1, I.fresh)
        _concretization_functions ==
            IF Len(op_specs) = 0
            THEN [i \in 1 .. Len(I.concretization) |-> I.concretization[i].v]
            ELSE sched[Len(op_specs)].order
        new_op(i) ==
            [name |-> op_specs[i].name,
             args |-> op_specs[i].args,
             assumptions |-> <<>>,
             temps |-> lifted[i].temps,
             stms |-> [j \in 1 .. Len(_concretization_functions) |->
                          [v |-> _concretization_functions[j],
                           stm |-> lifted[i].updates[_concretization_functions[j]]]],
             handle_stms |-> handle_stms(I, op_specs[i])]
    IN [name |-> spec.name, types |-> spec.types, extern_funcs |-> spec.extern_funcs,
        statevars |-> [i \in 1 .. Len(I.concretization) |->
                          <<I.concretization[i].v.id, I.concretization[i].e.type>>],
        assumptions |-> <<>>,
        queries |-> I.query_impls,
        ops |-> [i \in 1 .. Len(op_specs) |-> new_op(i)],
        header |-> spec.header, footer |-> spec.footer, docstring |-> spec.docstring]

----------------------------------------------------------------------------
(* Running the emitted code beside the abstract specification.             *)

\* The value of a call of query name on the concrete store st.
call_value(I, st, name) ==
    LET t == impl_of(I, name).ret[1] IN (st[t.v] + t.c) % StateMod

\* The value of the right-hand side e: a query call, or a temporary of env.
rhs_value(I, st, env, e) ==
    IF e.tag = "ECall" THEN call_value(I, st, e.func) ELSE env[e.id]

\* The temporaries of an operation body, all evaluated before the first update.
temps_env(I, st, temps) ==
    [id \in {temps[i].var : i \in 1 .. Len(temps)} |->
        call_value(I, st, (CHOOSE d \in Range(temps) : d.var = id).val.func)]

\* The update statements stms of an operation body, run in order from position i.
RECURSIVE run_stms(_, _, _, _, _)
run_stms(I, st, env, stms, i) ==
    IF i > Len(stms) THEN st
    ELSE LET s == stms[i].stm
         IN run_stms(I,
                     IF s.tag = "SAssign"
                     THEN [st EXCEPT ![s.lhs] = rhs_value(I, st, env, s.rhs)]
                     ELSE st,
                     env, stms, i + 1)

run_op(I, st, new_op) == run_stms(I, st, temps_env(I, st, new_op.temps), new_op.stms, 1)

----------------------------------------------------------------------------
(* cozy/synthesis/high_level_interface.py: synthesize.  Its local state is *)
(* a record [specs, impls, new_state_vars, op_stms, improvement_jobs,      *)
(* solutions_q, fresh, log, calls, removed, cleaned, failed, timed_out,    *)
(* abnormal]: op_stms maps a variable to the map from operation            *)
(* names to statements, improvement_jobs holds the jobs, log and calls are *)
(* the rewrites and the calls of set_impl of the current step, removed the *)
(* queries it has collected, cleaned tells that the step has ended with    *)
(* cleanup, failed that an exception has left synthesize (a failed         *)
(* assertion of set_impl or an exception of stop_job), timed_out that the  *)
(* wall-clock budget has expired, abnormal that some job has ended without *)
(* success.                                                                *)

\* The local variables of synthesize before the first push_goal.
synthesize_locals ==
    [specs |-> <<>>, impls |-> <<>>, new_state_vars |-> <<>>, op_stms |-> <<>>,
     improvement_jobs |-> <<>>, solutions_q |-> <<>>, fresh |-> 10, log |-> <<>>,
     calls |-> <<>>, removed |-> {}, cleaned |-> FALSE, failed |-> FALSE,
     timed_out |-> FALSE, abnormal |-> FALSE]

root_queries == {spec.queries[i].name : i \in 1 .. Len(spec.queries)}

\* inc.derivative and inc.apply_delta_in_place: the statement that maintains
\* new_member, which tracks projection, when op runs, and the subqueries it calls.
derivative(new_member, projection, op, fresh) ==
    IF op.d % StateMod = 0
    THEN [stm |-> SNoOp, subqueries |-> <<>>, fresh |-> fresh]
    ELSE LET sub_q == Query(fresh, "Internal", op.args, <<>>,
                            Exp(projection.type, projection.k + op.d, 1))
         IN [stm |-> SAssign(new_member, ECall(sub_q.name, ArgNames(op.args))),
             subqueries |-> <<sub_q>>, fresh |-> fresh + 1]

\* rewrite_ret of high_level_interface.py: the assumptions stay.
synthesize_rewrite_ret(q, ret) ==
    [name |-> q.name, args |-> q.args, assumptions |-> q.assumptions, ret |-> ret]

\* queries_used_by(thing) of synthesize: every call counts.
synthesize_queries_used_by(stm) == {e.func : e \in {x \in all_exps(stm) : x.tag = "ECall"}}

\* equivalent(q1, q2) of synthesize
equivalent(q1, q2) ==
    IF q1.ret.type # q2.ret.type THEN FALSE
    ELSE IF dict(q1.args) # dict(q2.args) THEN FALSE
    ELSE valid_EEq(q1.ret, q2.ret)

\* Repl().visit(state_update_stm) of synthesize.set_impl: the arguments stay as they are.
RECURSIVE synthesize_Repl(_, _, _)
synthesize_Repl(s, sub_name, qq_name) ==
    CASE s.tag = "SNoOp" -> s
      [] s.tag = "SAssign" ->
            IF s.rhs.tag = "ECall" /\ s.rhs.func = sub_name
            THEN [s EXCEPT !.rhs = ECall(qq_name, s.rhs.args)] ELSE s
      [] s.tag = "SDecl" ->
            IF s.val.tag = "ECall" /\ s.val.func = sub_name
            THEN [s EXCEPT !.val = ECall(qq_name, s.val.args)] ELSE s
      [] s.tag = "SForEach" ->
            [s EXCEPT !.iter = IF @.tag = "ECall" /\ @.func = sub_name
                               THEN ECall(qq_name, @.args) ELSE @,
                      !.body = synthesize_Repl(@, sub_name, qq_name)]

\* op_stms[v][op_name], read only
get_op_stm(op_stms, v, op_name) ==
    IF v \in DOMAIN op_stms /\ op_name \in DOMAIN op_stms[v] THEN op_stms[v][op_name]
    ELSE SNoOp

\* op_stms[v][op_name] = stm on the nested dictionary
put_op_stm(op_stms, v, op_name, stm) ==
    LET inner == IF v \in DOMAIN op_stms THEN op_stms[v] ELSE <<>>
    IN [x \in (DOMAIN op_stms) \cup {v} |->
          IF x = v
          THEN [o \in (DOMAIN inner) \cup {op_name} |-> IF o = op_name THEN stm ELSE inner[o]]
          ELSE op_stms[x]]

synthesize_spec_names(D) == {D.specs[i].name : i \in 1 .. Len(D.specs)}

synthesize_impl_names(D) == {D.impls[i].name : i \in 1 .. Len(D.impls)}

synthesize_state_vars(D) == {D.new_state_vars[i].v : i \in 1 .. Len(D.new_state_vars)}

\* The loop "finding duplicated state vars" of synthesize.set_impl, from entry i on.
RECURSIVE synthesize_coalesce(_, _, _, _)
synthesize_coalesce(D, rep, ret, i) ==
    IF i > Len(rep) THEN ret
    ELSE LET aeq == find_one(D.new_state_vars, LAMBDA c : alpha_equivalent(rep[i].e, c.e))
         IN synthesize_coalesce(D, rep,
                IF aeq # 0 THEN subst(ret, rep[i].v, D.new_state_vars[aeq].v) ELSE ret,
                i + 1)

\* to_remove of synthesize.set_impl
synthesize_to_remove(D, rep) ==
    {rep[i].v : i \in {j \in 1 .. Len(rep) :
        \E c \in Range(D.new_state_vars) : alpha_equivalent(rep[j].e, c.e)}}

RECURSIVE synthesize_set_impl(_, _, _, _)
RECURSIVE push_goal(_, _)
RECURSIVE synthesize_subqueries(_, _, _, _, _)
RECURSIVE synthesize_incrementalize(_, _, _, _)

\* The loop "for sub_q in subqueries" of synthesize.set_impl, from subquery i on.
synthesize_subqueries(D, op, subqueries, stm, i) ==
    IF i > Len(subqueries) \/ D.failed THEN [locals |-> D, stm |-> stm]
    ELSE LET sub_q == [subqueries[i] EXCEPT !.assumptions = op.assumptions \o @]
             qq == SelectSeq(D.specs, LAMBDA x : equivalent(x, sub_q))
         IN IF qq # <<>>
            THEN IF Len(qq) # 1
                 THEN [locals |-> [D EXCEPT !.failed = TRUE], stm |-> stm]
                 ELSE synthesize_subqueries(
                        [D EXCEPT !.log = Append(@, [sub_q |-> sub_q, qq |-> qq[1]])],
                        op, subqueries, synthesize_Repl(stm, sub_q.name, qq[1].name), i + 1)
            ELSE synthesize_subqueries(push_goal(D, sub_q), op, subqueries, stm, i + 1)

\* op_stms[new_member][op.name] = state_update_stm, unless an assertion has failed
set_op_stm(r, new_member, op_name) ==
    IF r.locals.failed THEN r.locals
    ELSE [r.locals EXCEPT !.op_stms = put_op_stm(@, new_member, op_name, r.stm)]

\* The loop "for op in ops: for new_member, projection in rep" of synthesize.set_impl.
synthesize_incrementalize(D, rep, oi, ri) ==
    IF oi > Len(op_specs) \/ D.failed THEN D
    ELSE IF ri > Len(rep) THEN synthesize_incrementalize(D, rep, oi + 1, 1)
    ELSE LET op == op_specs[oi]
             m == derivative(rep[ri].v, rep[ri].e, op, D.fresh)
         IN synthesize_incrementalize(
                set_op_stm(synthesize_subqueries([D EXCEPT !.fresh = m.fresh], op,
                                                 m.subqueries, m.stm, 1),
                           rep[ri].v, op.name),
                rep, oi, ri + 1)

\* The record of a call of synthesize.set_impl that started in D and returned R.
synthesize_set_impl_returns(R, D, q, rep, ret, ret2, rep2) ==
    [R EXCEPT !.calls = Append(@,
        [q |-> q, rep |-> rep, ret |-> ret, concretization |-> D.new_state_vars,
         installed |-> ret2, appended |-> rep2,
         concretization_after |-> R.new_state_vars,
         updated |-> DOMAIN R.op_stms])]

\* set_impl(q, rep, ret) of synthesize; find_spec(q) succeeds at every call
synthesize_set_impl(D, q, rep, ret) ==
    LET rm == synthesize_to_remove(D, rep)
        ret2 == synthesize_coalesce(D, rep, ret, 1)
        rep2 == SelectSeq(rep, LAMBDA x : x.v \notin rm)
        D1 == [D EXCEPT !.new_state_vars = @ \o rep2,
                        !.impls = put_impl(@, synthesize_rewrite_ret(q, ret2))]
    IN synthesize_set_impl_returns(synthesize_incrementalize(D1, rep2, 1, 1),
                                   D, q, rep, ret, ret2, rep2)

\* ImproveQueryJob(ctx, state_vars, assumptions, q, k) after j.start(): status is
\* "running" while the job runs, "done" when it has ended with success, "failed" when it
\* has ended without (done and not successful), "stuck" when it will never end.
ImproveQueryJob(q) == [q |-> q.name, status |-> "running", stop_requested |-> FALSE]

\* improvement_jobs.append(j) of push_goal, unless an assertion has failed
start_job(D, q) ==
    IF D.failed THEN D ELSE [D EXCEPT !.improvement_jobs = Append(@, ImproveQueryJob(q))]

\* The names of the queries of the jobs of improvement_jobs.
job_names(D) == {D.improvement_jobs[i].q : i \in 1 .. Len(D.improvement_jobs)}

\* j.request_stop(); j.join(timeout=30): a running job sees the flag and ends.
request_stop(j) ==
    [j EXCEPT !.stop_requested = TRUE, !.status = IF @ = "running" THEN "done" ELSE @]

\* A variant that removes the job whether or not it has ended with success.
stop_job_unchecked(D, i) ==
    [D EXCEPT !.improvement_jobs =
        [k \in 1 .. (Len(@) - 1) |-> IF k < i THEN @[k] ELSE @[k + 1]]]

\* stop_job(j) for the job at index i: an exception unless the job has ended with
\* success, and then improvement_jobs.remove(j).
stop_job(D, i) ==
    LET j == request_stop(D.improvement_jobs[i])
    IN IF j.status # "done"
       THEN [D EXCEPT !.improvement_jobs[i] = j, !.failed = TRUE]
       ELSE [D EXCEPT !.improvement_jobs =
                [k \in 1 .. (Len(@) - 1) |-> IF k < i THEN @[k] ELSE @[k + 1]]]

\* "for j in list(improvement_jobs): if j.q.name not in queries_to_keep: stop_job(j)",
\* from the job at index i on; the first exception ends the loop.
RECURSIVE stop_jobs(_, _, _)
stop_jobs(D, queries_to_keep, i) ==
    IF D.failed \/ i > Len(D.improvement_jobs) THEN D
    ELSE IF D.improvement_jobs[i].q \in queries_to_keep
    THEN stop_jobs(D, queries_to_keep, i + 1)
    ELSE stop_jobs(stop_job(D, i), queries_to_keep, i)

\* "remove old method implementations", the last step of cleanup
remove_op_stms(D, kept) ==
    IF D.failed THEN D
    ELSE [D EXCEPT !.cleaned = TRUE, !.op_stms = [v \in (DOMAIN @) \cap kept |-> @[v]]]

\* push_goal(q): the abstract state variable that q reads becomes a state variable of
\* the implementation, and a job starts to improve q.
push_goal(D, q) ==
    LET v == CVar(D.fresh, "Int")
        rep == <<[v |-> v, e |-> Exp("Int", 0, 0)]>>
        ret == <<[v |-> v, c |-> q.ret.k % StateMod]>>
    IN start_job(synthesize_set_impl([D EXCEPT !.specs = Append(@, q), !.fresh = @ + 1],
                                     q, rep, ret),
                 q)

\* queries_to_keep of synthesize.cleanup: the mark phase, from the set Q on.
RECURSIVE synthesize_mark(_, _)
synthesize_mark(D, Q) ==
    LET state_vars_to_keep ==
            UNION {free_vars(D.impls[i]) :
                      i \in {j \in 1 .. Len(D.impls) : D.impls[j].name \in Q}}
        Q2 == Q \cup UNION {synthesize_queries_used_by(get_op_stm(D.op_stms, v, o)) :
                               v \in state_vars_to_keep, o \in op_names}
    IN IF Q2 = Q THEN Q ELSE synthesize_mark(D, Q2)

\* A variant of cleanup that leaves the jobs of the removed queries alone.
synthesize_cleanup_keep_jobs(D) ==
    IF D.failed THEN D ELSE
    LET queries_to_keep == synthesize_mark(D, root_queries)
        specs == SelectSeq(D.specs, LAMBDA q : q.name \in queries_to_keep)
        impls == SelectSeq(D.impls, LAMBDA q : q.name \in queries_to_keep)
        new_state_vars == SelectSeq(D.new_state_vars,
                              LAMBDA c : \E q \in Range(impls) : c.v \in free_vars(q))
    IN remove_op_stms(
          [D EXCEPT !.specs = specs, !.impls = impls, !.new_state_vars = new_state_vars,
                    !.removed = (synthesize_spec_names(D) \cup synthesize_impl_names(D))
                                   \ queries_to_keep],
          {new_state_vars[i].v : i \in 1 .. Len(new_state_vars)})

\* cleanup() of synthesize.  It does not run when an assertion of set_impl has failed;
\* an exception of stop_job leaves op_stms as it was.
synthesize_cleanup(D) ==
    IF D.failed THEN D ELSE
    LET queries_to_keep == synthesize_mark(D, root_queries)
        specs == SelectSeq(D.specs, LAMBDA q : q.name \in queries_to_keep)
        impls == SelectSeq(D.impls, LAMBDA q : q.name \in queries_to_keep)
        new_state_vars == SelectSeq(D.new_state_vars,
                              LAMBDA c : \E q \in Range(impls) : c.v \in free_vars(q))
    IN remove_op_stms(
          stop_jobs(
             [D EXCEPT !.specs = specs, !.impls = impls, !.new_state_vars = new_state_vars,
                       !.removed = (synthesize_spec_names(D) \cup synthesize_impl_names(D))
                                      \ queries_to_keep],
             queries_to_keep, 1),
          {new_state_vars[i].v : i \in 1 .. Len(new_state_vars)})

----------------------------------------------------------------------------
(* The inputs: specifications and improver solutions.                      *)

NoAssumptions == <<>>

Pre == <<[p |-> "pre", size |-> 2]>>

\* Argument names: 1 is x, 2 is y, 3 is z.
PublicQueries ==
    {<<Query(1, "Public", <<>>, NoAssumptions, Exp("Int", 0, 0))>>,
     <<Query(1, "Public", <<<<3, "Int">>>>, NoAssumptions, Exp("Int", 0, 0)),
       Query(2, "Public", <<<<3, "Int">>>>, NoAssumptions, Exp("Int", 0, 1))>>,
     <<Query(1, "Public", <<<<1, "Int">>, <<2, "Bool">>>>, Pre, Exp("Int", 1, 0))>>}

Op(name, args, assumptions, d, hd) ==
    [name |-> name, args |-> args, assumptions |-> assumptions, d |-> d, hd |-> hd]

Operations ==
    {<<Op("opA", <<<<1, "Int">>, <<2, "Bool">>>>, Pre, 1, 1)>>,
     <<Op("opA", <<<<1, "Int">>, <<2, "Bool">>>>, Pre, 1, 1),
       Op("opB", <<<<2, "Bool">>, <<1, "Int">>>>, Pre, 2, 0)>>,
     <<Op("opA", <<<<1, "Int">>>>, NoAssumptions, 1, 0),
       Op("opB", <<<<1, "Int">>>>, Pre, 1, 0)>>}

Handles == {<<>>, <<[t |-> "H", bag |-> Exp("Int", 0, 0)]>>}

InputSpecs ==
    [queries : PublicQueries, ops : Operations, handles : Handles,
     dedup_queries : BOOLEAN,
     name : {"name"}, types : {"types"}, extern_funcs : {"extern_funcs"},
     header : {"header"}, footer : {"footer"}, docstring : {"docstring"}]

\* The solutions an improver may report for query q: one new state variable tracking
\* any expression of the type of q, or two state variables with equal meanings.
Solutions(q, fresh) ==
    {[rep |-> <<[v |-> CVar(fresh, q.ret.type), e |-> Exp(q.ret.type, j, f)]>>,
      ret |-> <<[v |-> CVar(fresh, q.ret.type), c |-> (q.ret.k + StateMod - j) % StateMod]>>]
        : j \in States, f \in {0, 1}}
    \cup
    {[rep |-> <<[v |-> CVar(fresh, q.ret.type), e |-> Exp(q.ret.type, j, 0)],
                [v |-> CVar(fresh + 1, q.ret.type), e |-> Exp(q.ret.type, j, 1)]>>,
      ret |-> <<[v |-> CVar(fresh, q.ret.type), c |-> (q.ret.k + StateMod - j) % StateMod],
                [v |-> CVar(fresh + 1, q.ret.type),
                 c |-> (q.ret.k + StateMod - j) % StateMod]>>]
        : j \in States}

\* The solutions a job of synthesize reports for query q: one new state variable that
\* tracks the abstract state, in its own or in another form, or the abstract state
\* plus one.
JobSolutions(q, fresh) ==
    {x \in Solutions(q, fresh) :
        /\ Len(x.rep) = 1
        /\ x.rep[1].e \in {Exp(q.ret.type, 0, 0), Exp(q.ret.type, 0, 1),
                            Exp(q.ret.type, 1, 0)}}

----------------------------------------------------------------------------
(* The life of an Implementation.                                          *)

public_added == Cardinality({i \in 1 .. Len(impl.query_specs) :
                                impl.query_specs[i].visibility = "Public"})

begin_step(I) == [I EXCEPT !.log = <<>>, !.calls = <<>>, !.removed = {}]

Init ==
    /\ spec \in InputSpecs
    /\ impl = Implementation
    /\ drv = synthesize_locals
    \* synthesize reads neither the handles nor the deduplicate-subqueries option
    /\ pc \in IF spec.handles = <<>> /\ spec.dedup_queries
              THEN {"construct", "synthesize"} ELSE {"construct"}
    /\ emitted = <<>>
    /\ astate = 0
    /\ store = <<>>
    /\ nrun = 0
    /\ nimp = 0

\* construct_initial_implementation: impl.add_query(m) for the next query m
AddQuery ==
    /\ pc = "construct"
    /\ public_added < Len(spec.queries)
    /\ impl' = add_query(begin_step(impl), spec.queries[public_added + 1])
    /\ UNCHANGED <<spec, drv, pc, emitted, astate, store, nrun, nimp>>

\* construct_initial_implementation: impl._setup_handle_updates()
SetupHandleUpdates ==
    /\ pc = "construct"
    /\ public_added = Len(spec.queries)
    /\ impl' = _setup_handle_updates(begin_step(impl), 1, 1)
    /\ pc' = "handles"
    /\ UNCHANGED <<spec, drv, emitted, astate, store, nrun, nimp>>

\* impl.cleanup(): the one that ends construct_initial_implementation, or a later one
Cleanup ==
    /\ pc \in {"handles", "ready", "installed"}
    /\ impl' = cleanup(begin_step(impl))
    /\ pc' = "ready"
    /\ UNCHANGED <<spec, drv, emitted, astate, store, nrun, nimp>>

\* impl.set_impl(q, rep, ret) with a solution of an improver for a query of query_specs
SetImpl ==
    /\ pc \in {"ready", "installed"}
    /\ nimp < MaxImprove
    /\ \E q \in Range(impl.query_specs) :
         \E sol \in Solutions(q, impl.fresh) :
            impl' = set_impl([begin_step(impl) EXCEPT !.fresh = @ + Len(sol.rep)],
                             q, sol.rep, sol.ret)
    /\ nimp' = nimp + 1
    /\ pc' = "installed"
    /\ UNCHANGED <<spec, drv, emitted, astate, store, nrun>>

\* impl.code: the output specification; the store starts as the concretization of
\* the abstract state.
Code ==
    /\ pc \in {"ready", "installed"}
    /\ \E sched \in schedules(impl, 1, [i \in 1 .. Len(impl.concretization) |->
                                            impl.concretization[i].v]) :
          emitted' = [code |-> code(impl, sched), sched |-> sched]
    /\ store' = [v \in concrete_vars(impl) |->
                    eval((CHOOSE c \in Range(impl.concretization) : c.v = v).e, astate)]
    /\ pc' = "emitted"
    /\ impl' = begin_step(impl)
    /\ UNCHANGED <<spec, drv, astate, nrun, nimp>>

\* One operation of the specification, run on the abstract state and on the emitted code.
RunOp ==
    /\ pc = "emitted"
    /\ nrun < MaxRun
    /\ \E i \in 1 .. Len(op_specs) :
          /\ astate' = (astate + op_specs[i].d) % StateMod
          /\ store' = run_op(impl, store, emitted.code.ops[i])
    /\ nrun' = nrun + 1
    /\ UNCHANGED <<spec, drv, impl, pc, emitted, nimp>>

----------------------------------------------------------------------------
(* The run of synthesize.                                                  *)

goals_pushed == Cardinality({i \in 1 .. Len(drv.specs) : drv.specs[i].name \in root_queries})

synthesize_begin_step(D) ==
    [D EXCEPT !.log = <<>>, !.calls = <<>>, !.removed = {}, !.cleaned = FALSE]

\* "set initial implementations": push_goal(q) for the next query q of the specification
PushGoal ==
    /\ pc = "synthesize"
    /\ ~drv.failed
    /\ goals_pushed < Len(spec.queries)
    /\ drv' = push_goal(synthesize_begin_step(drv), spec.queries[goals_pushed + 1])
    /\ UNCHANGED <<spec, impl, pc, emitted, astate, store, nrun, nimp>>

\* ImproveQueryJob.run of a registered job: self.k(new_rep, new_ret) puts a solution
\* on solutions_q.
Improve ==
    /\ pc = "synthesize"
    /\ ~drv.failed
    /\ goals_pushed = Len(spec.queries)
    /\ ~drv.timed_out
    /\ nimp < MaxJobSteps
    /\ \E q \in {x \in Range(drv.specs) :
                    \E j \in Range(drv.improvement_jobs) :
                       j.q = x.name /\ j.status = "running"} :
         \E sol \in JobSolutions(q, drv.fresh) :
            drv' = [synthesize_begin_step(drv) EXCEPT
                       !.solutions_q = Append(@, [q |-> q, rep |-> sol.rep, ret |-> sol.ret]),
                       !.fresh = @ + Len(sol.rep)]
    /\ nimp' = nimp + 1
    /\ UNCHANGED <<spec, impl, pc, emitted, astate, store, nrun>>

\* ImproveQueryJob.run of a running job ends by itself: with success (it has proved
\* optimality), without (an exception), or never (a deadlock).
JobEnds ==
    /\ pc = "synthesize"
    /\ ~drv.failed
    /\ goals_pushed = Len(spec.queries)
    /\ ~drv.timed_out
    /\ nimp < MaxJobSteps
    /\ \E i \in 1 .. Len(drv.improvement_jobs) :
         \E status \in {"done", "failed", "stuck"} :
            /\ drv.improvement_jobs[i].status = "running"
            /\ drv' = [synthesize_begin_step(drv) EXCEPT
                          !.improvement_jobs[i].status = status,
                          !.abnormal = @ \/ status = "failed"]
    /\ nimp' = nimp + 1
    /\ UNCHANGED <<spec, impl, pc, emitted, astate, store, nrun>>

\* The wall-clock budget per_query_timeout expires: timeout.is_timed_out() from now on.
TimeOut ==
    /\ pc = "synthesize"
    /\ ~drv.failed
    /\ goals_pushed = Len(spec.queries)
    /\ ~drv.timed_out
    /\ drv' = [synthesize_begin_step(drv) EXCEPT !.timed_out = TRUE]
    /\ UNCHANGED <<spec, impl, pc, emitted, astate, store, nrun, nimp>>

\* A variant of the loop condition that does not look at the clock.
loop_continues_without_timeout(D) ==
    \E j \in Range(D.improvement_jobs) : j.status \in {"running", "stuck"}

\* The condition of the main loop:
\* any(not j.done for j in improvement_jobs) and not timeout.is_timed_out()
loop_continues(D) ==
    /\ \E j \in Range(D.improvement_jobs) : j.status \notin {"done", "failed"}
    /\ ~D.timed_out

\* A variant that installs the solution whether or not its query is registered.
install_always(D, item) == synthesize_set_impl(D, item.q, item.rep, item.ret)

\* "if q.name in [qq.name for qq in specs]: set_impl(q, new_rep, new_ret)"
install(D, item) ==
    IF item.q.name \in synthesize_spec_names(D)
    THEN synthesize_set_impl(D, item.q, item.rep, item.ret)
    ELSE D

\* One iteration of the main loop that gets an item from solutions_q: set_impl if the
\* query is still registered, then cleanup.
Iterate ==
    /\ pc = "synthesize"
    /\ ~drv.failed
    /\ goals_pushed = Len(spec.queries)
    /\ loop_continues(drv)
    /\ drv.solutions_q # <<>>
    /\ drv' = synthesize_cleanup(
                 install([synthesize_begin_step(drv) EXCEPT !.solutions_q = Tail(@)],
                         Head(drv.solutions_q)))
    /\ UNCHANGED <<spec, impl, pc, emitted, astate, store, nrun, nimp>>

\* The end of synthesize once the main loop is left: "stop jobs", then the result is
\* assembled from impls, op_stms and new_state_vars and returned.
StopJobs ==
    /\ pc = "synthesize"
    /\ ~drv.failed
    /\ goals_pushed = Len(spec.queries)
    /\ ~loop_continues(drv)
    /\ drv' = stop_jobs(synthesize_begin_step(drv), {}, 1)
    /\ pc' = IF drv'.failed THEN pc ELSE "returned"
    /\ UNCHANGED <<spec, impl, emitted, astate, store, nrun, nimp>>

Next ==
    \/ AddQuery \/ SetupHandleUpdates \/ Cleanup \/ SetImpl \/ Code \/ RunOp
    \/ PushGoal \/ Improve \/ JobEnds \/ TimeOut \/ Iterate \/ StopJobs

Spec == Init /\ [][Next]_vars

\* The wall clock advances and the driver thread keeps running: the budget expires
\* unless the loop has been left before, and a loop whose condition is false is left.
LiveSpec == Spec /\ WF_vars(TimeOut) /\ WF_vars(StopJobs)

----------------------------------------------------------------------------
(* A bounded solutions_q. jobs.SafeQueue is not part of the sources; the   *)
(* queue is a bounded one whose put blocks while the queue is full. A job  *)
(* that waits in put has status "putting": it is not done and does not     *)
(* look at its stop flag before put returns.                               *)

\* The number of items solutions_q holds.
QueueSize == 1

\* self.k(new_rep, new_ret) while the queue has room
PutOnQueue ==
    /\ Len(drv.solutions_q) < QueueSize
    /\ Improve

\* self.k(new_rep, new_ret) while the queue is full: solutions_q.put blocks. The step
\* is counted here, and not when put returns.
BlocksOnPut ==
    /\ pc = "synthesize"
    /\ ~drv.failed
    /\ goals_pushed = Len(spec.queries)
    /\ ~drv.timed_out
    /\ nimp < MaxJobSteps
    /\ Len(drv.solutions_q) >= QueueSize
    /\ \E i \in 1 .. Len(drv.improvement_jobs) :
          /\ drv.improvement_jobs[i].status = "running"
          /\ drv' = [synthesize_begin_step(drv) EXCEPT
                        !.improvement_jobs[i].status = "putting"]
    /\ nimp' = nimp + 1
    /\ UNCHANGED <<spec, impl, pc, emitted, astate, store, nrun>>

\* The queue has room again: the put of a waiting job returns.
PutCompletes ==
    /\ pc = "synthesize"
    /\ ~drv.failed
    /\ Len(drv.solutions_q) < QueueSize
    /\ \E i \in 1 .. Len(drv.improvement_jobs) :
          /\ drv.improvement_jobs[i].status = "putting"
          /\ \E q \in {x \in Range(drv.specs) : x.name = drv.improvement_jobs[i].q} :
               \E sol \in JobSolutions(q, drv.fresh) :
                  drv' = [synthesize_begin_step(drv) EXCEPT
                             !.solutions_q = Append(@, [q |-> q, rep |-> sol.rep,
                                                        ret |-> sol.ret]),
                             !.fresh = @ + Len(sol.rep),
                             !.improvement_jobs[i].status = "running"]
    /\ UNCHANGED <<spec, impl, pc, emitted, astate, store, nrun, nimp>>

QueueNext ==
    \/ PushGoal \/ PutOnQueue \/ BlocksOnPut \/ PutCompletes
    \/ TimeOut \/ Iterate \/ StopJobs

QueueInit == Init /\ pc = "synthesize"

QueueSpec == QueueInit /\ [][QueueNext]_vars

----------------------------------------------------------------------------
(* An improver that reports a return expression of another type.           *)

\* A type other than t.
other_type(t) == IF t = "Bool" THEN "Int" ELSE "Bool"

\* The type of a concrete return expression: the type of the variables it reads.
ret_type(ret) == ret[1].v.type

\* Solutions for query q whose ret has a type other than the type of q.ret.
IllTypedSolutions(q, fresh) ==
    {[rep |-> <<[v |-> CVar(fresh, other_type(q.ret.type)),
                 e |-> Exp(other_type(q.ret.type), j, 0)]>>,
      ret |-> <<[v |-> CVar(fresh, other_type(q.ret.type)), c |-> 0]>>]
        : j \in States}

\* impl.set_impl(q, rep, ret) with a ret of another type than q.ret
SetImplIllTyped ==
    /\ pc \in {"ready", "installed"}
    /\ nimp < MaxImprove
    /\ \E q \in Range(impl.query_specs) :
         \E sol \in IllTypedSolutions(q, impl.fresh) :
            impl' = set_impl([begin_step(impl) EXCEPT !.fresh = @ + Len(sol.rep)],
                             q, sol.rep, sol.ret)
    /\ nimp' = nimp + 1
    /\ pc' = "installed"
    /\ UNCHANGED <<spec, drv, emitted, astate, store, nrun>>

\* A job of synthesize puts a solution on solutions_q whose ret has another type than
\* the return expression of its query.
ImproveIllTyped ==
    /\ pc = "synthesize"
    /\ ~drv.failed
    /\ goals_pushed = Len(spec.queries)
    /\ nimp < MaxImprove
    /\ \E q \in {x \in Range(drv.specs) :
                    \E j \in Range(drv.improvement_jobs) :
                       j.q = x.name /\ j.status = "running"} :
         \E sol \in IllTypedSolutions(q, drv.fresh) :
            drv' = [synthesize_begin_step(drv) EXCEPT
                       !.solutions_q = Append(@, [q |-> q, rep |-> sol.rep, ret |-> sol.ret]),
                       !.fresh = @ + Len(sol.rep)]
    /\ nimp' = nimp + 1
    /\ UNCHANGED <<spec, impl, pc, emitted, astate, store, nrun>>

IllTypedNext ==
    \/ AddQuery \/ SetupHandleUpdates \/ Cleanup \/ SetImplIllTyped
    \/ PushGoal \/ ImproveIllTyped \/ Iterate

IllTypedSpec == Init /\ [][IllTypedNext]_vars

----------------------------------------------------------------------------
(* rename_args. Here an expression is the set of the argument names it     *)
(* reads: fv is all that subst with a map of arguments changes.            *)

\* The length of the argument lists and of the query lists given to rename_args.
MaxArgs == 2
MaxQueries == 2

ArgChoices == {<<1, "Int">>, <<2, "Bool">>, <<3, "Int">>}

RECURSIVE SeqsUpTo(_, _)
SeqsUpTo(S, n) ==
    IF n = 0 THEN {<<>>}
    ELSE SeqsUpTo(S, n - 1) \cup
         {Append(x, y) : x \in {z \in SeqsUpTo(S, n - 1) : Len(z) = n - 1}, y \in S}

\* The queries with the argument list args: ret and the assumption read any of them.
QueriesOver(name, args) ==
    {[name |-> name, args |-> args,
      assumptions |-> <<[p |-> "pre", fv |-> afv]>>,
      ret |-> [type |-> "Int", fv |-> rfv]] :
        afv \in SUBSET {args[i][1] : i \in 1 .. Len(args)},
        rfv \in SUBSET {args[i][1] : i \in 1 .. Len(args)}}

QueryChoices(name) == UNION {QueriesOver(name, args) : args \in SeqsUpTo(ArgChoices, MaxArgs)}

\* The lists of queries given to rename_args: query i is called i.
RECURSIVE QueryLists(_)
QueryLists(n) ==
    IF n = 0 THEN {<<>>}
    ELSE QueryLists(n - 1) \cup
         {Append(x, y) : x \in {z \in QueryLists(n - 1) : Len(z) = n - 1},
                         y \in QueryChoices(n)}

\* mk_map((a for q in queries for (a, t) in q.args), v=len)[a]
arg_hist(queries, a) ==
    Cardinality({<<i, j>> \in (1 .. Len(queries)) \X (1 .. MaxArgs) :
                    j <= Len(queries[i].args) /\ queries[i].args[j][1] = a})

\* { a : EVar(fresh_name(a)) for (a, t) in q.args if arg_hist[a] > 1 }: fresh_name is
\* called once per argument, and the last call for a name stays in the dict.
arg_remap(queries, q, fresh) ==
    [a \in {q.args[i][1] : i \in {j \in 1 .. Len(q.args) :
                                      arg_hist(queries, q.args[j][1]) > 1}} |->
        fresh + (CHOOSE i \in 1 .. Len(q.args) :
                    /\ q.args[i][1] = a
                    /\ \A j \in (i + 1) .. Len(q.args) : q.args[j][1] # a) - 1]

\* arg_remap.get(a, EVar(a)).id
remap_get(m, a) == IF a \in DOMAIN m THEN m[a] ELSE a

\* subst(e, arg_remap) on the names an expression reads
subst_fv(fv, m) == {remap_get(m, a) : a \in fv}

\* A variant that renames the arguments and leaves the return expression as it was.
rename_query_args_only(queries, q, fresh) ==
    LET m == arg_remap(queries, q, fresh)
    IN [q EXCEPT !.args = [i \in 1 .. Len(q.args) |->
                              <<remap_get(m, q.args[i][1]), q.args[i][2]>>],
                 !.assumptions = [i \in 1 .. Len(q.assumptions) |->
                                     [q.assumptions[i] EXCEPT !.fv = subst_fv(@, m)]]]

\* The body of the loop of rename_args for query q.
rename_query(queries, q, fresh) ==
    LET m == arg_remap(queries, q, fresh)
    IN IF DOMAIN m # {}
       THEN [name |-> q.name,
             args |-> [i \in 1 .. Len(q.args) |->
                          <<remap_get(m, q.args[i][1]), q.args[i][2]>>],
             assumptions |-> [i \in 1 .. Len(q.assumptions) |->
                                 [q.assumptions[i] EXCEPT !.fv = subst_fv(@, m)]],
             ret |-> [q.ret EXCEPT !.fv = subst_fv(@, m)]]
       ELSE q

\* rename_args(queries), from query i on; fresh is the next name fresh_name returns.
RECURSIVE rename_args(_, _, _)
rename_args(queries, i, fresh) ==
    IF i > Len(queries) THEN <<>>
    ELSE <<rename_query(queries, queries[i], fresh)>> \o
         rename_args(queries, i + 1, fresh + Len(queries[i].args))

\* The call rename_args(store): the argument is in store, the result in emitted.
RenameInit ==
    /\ spec \in {x \in InputSpecs : x.handles = <<>> /\ x.dedup_queries /\ Len(x.ops) = 1
                                     /\ Len(x.queries) = 1 /\ x.queries[1].args = <<>>}
    /\ impl = Implementation
    /\ drv = synthesize_locals
    /\ pc = "rename_args"
    /\ emitted = <<>>
    /\ astate = 0
    /\ store \in QueryLists(MaxQueries)
    /\ nrun = 0
    /\ nimp = 0

RenameArgs ==
    /\ pc = "rename_args"
    /\ emitted' = rename_args(store, 1, 10)
    /\ pc' = "renamed"
    /\ UNCHANGED <<spec, impl, drv, astate, store, nrun, nimp>>

RenameSpec == RenameInit /\ [][RenameArgs]_vars

----------------------------------------------------------------------------
(* safe_copy. Two Implementation objects share what they refer to, so here *)
(* an object is a record of addresses [concretization, query_specs,        *)
(* query_impls, updates, handle_updates] into a heap of lists and dicts.   *)
(* After SafeCopy the heap is in store, emitted is [self, copy, last]:     *)
(* the two objects and the one the last method was called on; impl keeps   *)
(* the counter behind fresh_name, and nrun counts the method calls.        *)

\* The number of methods called on the two objects after safe_copy.
MaxCalls == 2

Fields == {"concretization", "query_specs", "query_impls", "updates", "handle_updates"}

\* The Implementation an object denotes.
view(heap, o, I) ==
    [I EXCEPT !.concretization = heap[o.concretization],
              !.query_specs = heap[o.query_specs],
              !.query_impls = heap[o.query_impls],
              !.updates = heap[o.updates],
              !.handle_updates = heap[o.handle_updates]]

contents(heap, o) == [f \in Fields |-> heap[o[f]]]

\* append, extend, remove, del and item assignment on the members of o: the lists and
\* dicts of o are changed in place and now hold the fields of R.
in_place(heap, o, R) ==
    [a \in DOMAIN heap |->
        IF a = o.concretization THEN R.concretization
        ELSE IF a = o.query_specs THEN R.query_specs
        ELSE IF a = o.query_impls THEN R.query_impls
        ELSE IF a = o.updates THEN R.updates
        ELSE IF a = o.handle_updates THEN R.handle_updates
        ELSE heap[a]]

\* The object that is impl, on a heap of its own.
self_object ==
    [concretization |-> 1, query_specs |-> 2, query_impls |-> 3, updates |-> 4,
     handle_updates |-> 5]

heap_of(I) ==
    <<I.concretization, I.query_specs, I.query_impls, I.updates, I.handle_updates>>

\* A variant that hands out the lists and dicts of self.
safe_copy_shared(heap, o) == [heap |-> heap, obj |-> o]

\* safe_copy: list(...), OrderedDict(...) and defaultdict(SNoOp, ...) of the members
safe_copy(heap, o) ==
    [heap |-> heap \o <<heap[o.concretization], heap[o.query_specs], heap[o.query_impls],
                        heap[o.updates], heap[o.handle_updates]>>,
     obj |-> [concretization |-> Len(heap) + 1, query_specs |-> Len(heap) + 2,
              query_impls |-> Len(heap) + 3, updates |-> Len(heap) + 4,
              handle_updates |-> Len(heap) + 5]]

\* The queries given to add_query after the copy.
NewQueries == {Query(3, "Public", <<>>, NoAssumptions, Exp("Int", k, 0)) : k \in {0, 1}}

\* The subqueries given to _add_subquery after the copy.
NewSubqueries(fresh) ==
    {Query(fresh, "Internal", op_specs[1].args, NoAssumptions, Exp("Int", k, 1)) :
        k \in {0, 1}}

CopyInit == Init /\ pc = "construct"

\* c = impl.safe_copy()
SafeCopy ==
    /\ pc = "ready"
    /\ store' = safe_copy(heap_of(impl), self_object).heap
    /\ emitted' = [self |-> self_object, copy |-> safe_copy(heap_of(impl), self_object).obj,
                   last |-> "none"]
    /\ pc' = "copied"
    /\ impl' = begin_step(impl)
    /\ UNCHANGED <<spec, drv, astate, nrun, nimp>>

\* A method called on object t has returned R.
method_returns(t, R) ==
    /\ store' = in_place(store, emitted[t], R)
    /\ emitted' = [emitted EXCEPT !.last = t]
    /\ impl' = [impl EXCEPT !.fresh = R.fresh]
    /\ nrun' = nrun + 1
    /\ UNCHANGED <<spec, drv, pc, astate, nimp>>

\* add_query(q) on self or on the copy
AddQueryOn ==
    /\ pc = "copied"
    /\ nrun < MaxCalls
    /\ \E t \in {"self", "copy"} :
         \E q \in NewQueries :
            /\ q.name \notin query_names(view(store, emitted[t], impl))
            /\ method_returns(t, add_query(view(store, emitted[t], impl), q))

\* set_impl(q, rep, ret) on self or on the copy
SetImplOn ==
    /\ pc = "copied"
    /\ nrun < MaxCalls
    /\ \E t \in {"self", "copy"} :
         \E q \in Range(store[emitted[t].query_specs]) :
            \E sol \in JobSolutions(q, impl.fresh) :
               method_returns(t, set_impl([view(store, emitted[t], impl) EXCEPT
                                              !.fresh = @ + Len(sol.rep)],
                                          q, sol.rep, sol.ret))

\* _add_subquery(sub_q, used_by) on self or on the copy
AddSubqueryOn ==
    /\ pc = "copied"
    /\ nrun < MaxCalls
    /\ \E t \in {"self", "copy"} :
         \E sub_q \in NewSubqueries(impl.fresh) :
            method_returns(t,
                _add_subquery([view(store, emitted[t], impl) EXCEPT !.fresh = @ + 2],
                              sub_q,
                              SAssign(CVar(impl.fresh + 1, "Int"),
                                      ECall(sub_q.name, ArgNames(sub_q.args)))).impl)

\* cleanup on object t has ended with R: query_specs, query_impls and updates are
\* changed in place, _concretization_functions is a new list.
cleanup_returns(t, R) ==
    /\ store' = Append(in_place(store, emitted[t],
                                [R EXCEPT !.concretization =
                                              store[emitted[t].concretization]]),
                       R.concretization)
    /\ emitted' = [emitted EXCEPT ![t].concretization = Len(store) + 1, !.last = t]
    /\ nrun' = nrun + 1
    /\ UNCHANGED <<spec, impl, drv, pc, astate, nimp>>

\* cleanup() on self or on the copy
CleanupOn ==
    /\ pc = "copied"
    /\ nrun < MaxCalls
    /\ \E t \in {"self", "copy"} :
         cleanup_returns(t, cleanup(view(store, emitted[t], impl)))

CopyNext ==
    \/ AddQuery \/ SetupHandleUpdates \/ Cleanup \/ SafeCopy
    \/ AddQueryOn \/ SetImplOn \/ AddSubqueryOn \/ CleanupOn

CopySpec == CopyInit /\ [][CopyNext]_vars

----------------------------------------------------------------------------
(* pull_temps on statements with loops and map updates. Variable 1 is the  *)
(* loop variable of an outer loop, 2 that of an inner loop, 3 the value    *)
(* variable of a map update, 4 an argument of the operation, 5 and 6 state *)
(* variables; the calls of query "q" are the bad expressions.              *)

\* The expressions of the statements given to pull_temps.
PullExps ==
    {EVar(4)} \cup {ECall("q", <<EVar(i)>>) : i \in 1 .. 4}
    \cup {ECall("p", <<EVar(1)>>)}

\* Statements without a loop.
PullLeaves ==
    {SAssign(EVar(5), e) : e \in PullExps}
    \cup {SMapUpdate(EVar(6), key, EVar(3), SAssign(EVar(3), e)) :
             key \in PullExps, e \in PullExps}
    \cup {SIf(ECall("q", <<EVar(4)>>), SMapDel(EVar(6), e), SNoOp) : e \in PullExps}
    \cup {SSeq(SMapPut(EVar(6), e, EVar(4)), SCall(EVar(5), "add", <<e>>)) :
             e \in PullExps}

\* Statements with at most one loop, over variable 2.
PullInner ==
    PullLeaves \cup
    {SForEach(EVar(2), iter, body) : iter \in PullExps, body \in PullLeaves}

\* free_vars of a statement
RECURSIVE stm_free_vars(_)
stm_free_vars(s) ==
    CASE s.tag = "SNoOp" -> {}
      [] s.tag = "SSeq" -> stm_free_vars(s.s1) \cup stm_free_vars(s.s2)
      [] s.tag = "SDecl" -> exp_free_vars(s.val)
      [] s.tag = "SIf" ->
            exp_free_vars(s.cond) \cup stm_free_vars(s.then_branch)
            \cup stm_free_vars(s.else_branch)
      [] s.tag = "SForEach" ->
            exp_free_vars(s.iter) \cup (stm_free_vars(s.body) \ {s.loop_var.id})
      [] s.tag = "SAssign" -> exp_free_vars(s.lhs) \cup exp_free_vars(s.rhs)
      [] s.tag = "SCall" ->
            exp_free_vars(s.target)
            \cup UNION {exp_free_vars(s.args[i]) : i \in 1 .. Len(s.args)}
      [] s.tag = "SMapDel" -> exp_free_vars(s.map) \cup exp_free_vars(s.key)
      [] s.tag = "SMapPut" ->
            exp_free_vars(s.map) \cup exp_free_vars(s.key) \cup exp_free_vars(s.value)
      [] s.tag = "SMapUpdate" ->
            exp_free_vars(s.map) \cup exp_free_vars(s.key)
            \cup (stm_free_vars(s.change) \ {s.val_var.id})

\* The update statements given to pull_temps: no loop variable and no value variable
\* is free in them.
PullStatements ==
    {s \in PullInner \cup
           {SForEach(EVar(1), iter, body) : iter \in PullExps, body \in PullInner} :
        stm_free_vars(s) \cap {1, 2, 3} = {}}

\* exp_is_bad of the call: the calls of query "q"
bad_exps(s) == {e \in all_exps(s) : e.tag = "ECall" /\ e.func = "q"}

\* The call pull_temps(store, decls_out, exp_is_bad) with an empty decls_out: the
\* statement is in store, the result and decls_out in emitted.
PullInit ==
    /\ spec \in {x \in InputSpecs : x.handles = <<>> /\ x.dedup_queries /\ Len(x.ops) = 1
                                     /\ Len(x.queries) = 1 /\ x.queries[1].args = <<>>}
    /\ impl = Implementation
    /\ drv = synthesize_locals
    /\ pc = "pull_temps"
    /\ emitted = <<>>
    /\ astate = 0
    /\ store \in PullStatements
    /\ nrun = 0
    /\ nimp = 0

PullTemps ==
    /\ pc = "pull_temps"
    /\ emitted' = pull_temps(store, bad_exps(store), 10)
    /\ pc' = "pulled"
    /\ UNCHANGED <<spec, impl, drv, astate, store, nrun, nimp>>

PullSpec == PullInit /\ [][PullTemps]_vars

----------------------------------------------------------------------------
(* synthesize on specifications with two public queries that compute the   *)
(* same result: the abstract state in two forms, with the arguments of the *)
(* operations.                                                             *)

TwinQueries ==
    {<<Query(1, "Public", <<>>, NoAssumptions, Exp("Int", 0, 0)),
       Query(2, "Public", <<>>, NoAssumptions, Exp("Int", 0, 1))>>,
     <<Query(1, "Public", <<<<1, "Int">>>>, NoAssumptions, Exp("Int", 0, 0)),
       Query(2, "Public", <<<<1, "Int">>>>, NoAssumptions, Exp("Int", 0, 1))>>}

TwinOperations ==
    {<<Op("opA", <<>>, NoAssumptions, 1, 0), Op("opB", <<>>, NoAssumptions, 2, 0)>>,
     <<Op("opA", <<<<1, "Int">>>>, NoAssumptions, 1, 0),
       Op("opB", <<<<1, "Int">>>>, NoAssumptions, 2, 0)>>}

TwinInit ==
    /\ spec \in {x \in [queries : TwinQueries, ops : TwinOperations, handles : {<<>>},
                         dedup_queries : {TRUE},
                         name : {"name"}, types : {"types"},
                         extern_funcs : {"extern_funcs"}, header : {"header"},
                         footer : {"footer"}, docstring : {"docstring"}] :
                    x.queries[1].args = x.ops[1].args}
    /\ impl = Implementation
    /\ drv = synthesize_locals
    /\ pc = "synthesize"
    /\ emitted = <<>>
    /\ astate = 0
    /\ store = <<>>
    /\ nrun = 0
    /\ nimp = 0

TwinNext == PushGoal \/ Improve \/ JobEnds \/ TimeOut \/ Iterate \/ StopJobs

TwinSpec == TwinInit /\ [][TwinNext]_vars

----------------------------------------------------------------------------
(* An Implementation for specifications whose operations leave the         *)
(* abstract state as it is (they change handle values at most): no update  *)
(* needs a subquery, and the concretization holds what the queries read.   *)

StillOperations ==
    {<<Op("opA", <<<<1, "Int">>, <<2, "Bool">>>>, Pre, 0, 1)>>,
     <<Op("opA", <<<<1, "Int">>>>, NoAssumptions, 0, 0),
       Op("opB", <<<<1, "Int">>>>, Pre, 0, 1)>>}

StillInit ==
    /\ spec \in [queries : PublicQueries, ops : StillOperations, handles : Handles,
                  dedup_queries : BOOLEAN,
                  name : {"name"}, types : {"types"}, extern_funcs : {"extern_funcs"},
                  header : {"header"}, footer : {"footer"}, docstring : {"docstring"}]
    /\ impl = Implementation
    /\ drv = synthesize_locals
    /\ pc = "construct"
    /\ emitted = <<>>
    /\ astate = 0
    /\ store = <<>>
    /\ nrun = 0
    /\ nimp = 0

StillNext == AddQuery \/ SetupHandleUpdates \/ Cleanup \/ SetImpl

StillSpec == StillInit /\ [][StillNext]_vars

----------------------------------------------------------------------------
(* The step "simplifying" of _add_subquery with a simplifier that may      *)
(* return an assumption of any size.                                       *)

\* The number of assumptions of sub_q and the size of an assumption.
MaxAssumptions == 2
MaxSize == 3

\* The assumptions of sub_q before the step, each with what simplify returns for it.
SimplifierRuns ==
    UNION {[1 .. n -> [e : [p : {"pre"}, size : 1 .. MaxSize],
                       ee : [p : {"pre"}, size : 1 .. (MaxSize + 1)]]] :
              n \in 1 .. MaxAssumptions}

\* sum(a.size() for a in assumptions), from assumption i on
RECURSIVE sum_sizes(_, _)
sum_sizes(assumptions, i) ==
    IF i > Len(assumptions) THEN 0 ELSE assumptions[i].size + sum_sizes(assumptions, i + 1)

\* The step, given the sizes before and after: "if a_size > orig_a_size: assert False"
simplifying_returns(orig_a, assumptions) ==
    [orig_a |-> orig_a, assumptions |-> assumptions,
     orig_a_size |-> sum_sizes(orig_a, 1), a_size |-> sum_sizes(assumptions, 1),
     bad_simplification |-> sum_sizes(assumptions, 1) > sum_sizes(orig_a, 1)]

\* sub_q.assumptions = tuple(simplify_or_ignore(a) for a in sub_q.assumptions)
simplifying(runs) ==
    simplifying_returns([i \in 1 .. Len(runs) |-> runs[i].e],
                        [i \in 1 .. Len(runs) |->
                            simplified_or_ignored(runs[i].e, runs[i].ee)])

\* The assumptions and the answers of the simplifier are in store, the outcome of the
\* step in emitted.
SimplifyInit ==
    /\ spec \in {x \in InputSpecs : x.handles = <<>> /\ x.dedup_queries /\ Len(x.ops) = 1
                                     /\ Len(x.queries) = 1 /\ x.queries[1].args = <<>>}
    /\ impl = Implementation
    /\ drv = synthesize_locals
    /\ pc = "simplifying"
    /\ emitted = <<>>
    /\ astate = 0
    /\ store \in SimplifierRuns
    /\ nrun = 0
    /\ nimp = 0

Simplifying ==
    /\ pc = "simplifying"
    /\ emitted' = simplifying(store)
    /\ pc' = "simplified"
    /\ UNCHANGED <<spec, impl, drv, astate, store, nrun, nimp>>

SimplifySpec == SimplifyInit /\ [][Simplifying]_vars

----------------------------------------------------------------------------
(* Properties of the emitted code.                                         *)

\* The query calls in a statement.
calls_in(s) == {e \in all_exps(s) : e.tag = "ECall" /\ e.func \in impl_names(impl)}

\* The concrete variables the first n update statements of an emitted body write.
written_by(new_op, n) ==
    {new_op.stms[j].v : j \in {x \in 1 .. n : new_op.stms[x].stm.tag = "SAssign"}}

\* No call in statement s reads one of the variables of W directly.
reads_none_of(s, W) ==
    \A e \in calls_in(s) : state_read_by_query(impl, e.func) \cap W = {}

\* C1: in every emitted operation body no statement calls a query that reads a
\* concrete variable which an earlier statement of the body has written; such calls
\* stand only in the temporaries declared at the top of the body.
C1_NoReadAfterWrite ==
    pc = "emitted" =>
        \A i \in 1 .. Len(emitted.code.ops) :
            LET new_op == emitted.code.ops[i]
            IN /\ \A p \in 1 .. Len(new_op.stms) :
                      reads_none_of(new_op.stms[p].stm, written_by(new_op, p - 1))
               /\ \A h \in 1 .. Len(new_op.handle_stms) :
                      reads_none_of(new_op.handle_stms[h], written_by(new_op, Len(new_op.stms)))

\* C4: the update statements of every operation are emitted in the topological order
\* computed for that operation, the order its temporaries were lifted for.
C4_OwnTopologicalOrder ==
    pc = "emitted" =>
        \A i \in 1 .. Len(emitted.code.ops) :
            [j \in 1 .. Len(emitted.code.ops[i].stms) |-> emitted.code.ops[i].stms[j].v]
                = emitted.sched[i].order

\* C5: no handle-update statement of an emitted body calls a query that reads a
\* concrete variable written by an update statement of the same body.
C5_HandleUpdatesReadOldState ==
    pc = "emitted" =>
        \A i \in 1 .. Len(emitted.code.ops) :
            LET new_op == emitted.code.ops[i]
            IN \A h \in 1 .. Len(new_op.handle_stms) :
                  reads_none_of(new_op.handle_stms[h], written_by(new_op, Len(new_op.stms)))

\* C2: after every operation each concrete variable holds the value of its
\* concretization expression and every query implementation returns what its
\* specification returns.
C2_SemanticPreservation ==
    pc = "emitted" =>
        /\ \A c \in Range(impl.concretization) : store[c.v] = eval(c.e, astate)
        /\ \A q \in Range(impl.query_specs) :
              call_value(impl, store, q.name) = eval(q.ret, astate)

----------------------------------------------------------------------------
(* Properties of cleanup.                                                  *)

\* S holds the roots of cleanup and, with a query, the queries that the update
\* statements of the variables of its implementation call.
closed_under_deps(I, S) ==
    /\ cleanup_roots(I) \subseteq S
    /\ \A q \in S \cap impl_names(I) :
          \A v \in free_vars(impl_of(I, q)) :
             \A o \in op_names : queries_used_by(I, get_stm(I.updates, <<v, o>>)) \subseteq S

\* the same for the local state of synthesize, whose roots are the root queries
synthesize_closed_under_deps(D, S) ==
    /\ root_queries \subseteq S
    /\ \A i \in 1 .. Len(D.impls) :
          D.impls[i].name \in S =>
             \A v \in free_vars(D.impls[i]) :
                \A o \in op_names :
                   synthesize_queries_used_by(get_op_stm(D.op_stms, v, o)) \subseteq S

ReachabilityClosure(I) ==
    /\ \A S \in SUBSET (query_names(I) \cup impl_names(I)) :
          closed_under_deps(I, S) => (query_names(I) \cup impl_names(I)) \subseteq S
    /\ \A c \in Range(I.concretization) : \E q \in Range(I.query_impls) : c.v \in free_vars(q)
    /\ \A k \in DOMAIN I.updates : k[1] \in concrete_vars(I)

synthesize_ReachabilityClosure(D) ==
    /\ \A S \in SUBSET (synthesize_spec_names(D) \cup synthesize_impl_names(D)) :
          synthesize_closed_under_deps(D, S) =>
             (synthesize_spec_names(D) \cup synthesize_impl_names(D)) \subseteq S
    /\ \A c \in Range(D.new_state_vars) : \E q \in Range(D.impls) : c.v \in free_vars(q)
    /\ DOMAIN D.op_stms \subseteq synthesize_state_vars(D)

\* C3: immediately after cleanup every query of query_specs and of query_impls is
\* reachable from a public query or from a query that a handle update calls, every
\* concrete variable is free in a remaining query implementation, and every key of
\* updates names a variable of concretization; the same holds for the cleanup of
\* synthesize with the root queries as roots.
C3_ReachabilityClosure ==
    /\ pc = "ready" => ReachabilityClosure(impl)
    /\ (pc = "synthesize" /\ drv.cleaned) => synthesize_ReachabilityClosure(drv)

\* A cleanup of an implementation has just removed a query.
C3_Witness == pc = "ready" /\ impl.removed # {} /\ impl.handle_updates # <<>>

----------------------------------------------------------------------------
(* Properties of the deduplication of subqueries.                          *)

\* The solver has proved the preconditions of q1 and q2 equal and their returns equal.
proved_equal(q1, q2) ==
    /\ valid_iff(q1.assumptions, q2.assumptions)
    /\ valid_EEq(q1.ret, q2.ret)

\* C6: whenever a call of a new subquery is rewritten into a call of an existing query,
\* by _add_subquery or by the set_impl of synthesize, the solver has proved both the
\* equality of their preconditions and the equality of their return expressions.
C6_EquivalenceSoundness ==
    /\ \A L \in Range(impl.log) : L.qq # <<>> => proved_equal(L.qq[1], L.sub_q)
    /\ \A L \in Range(drv.log) : proved_equal(L.qq, L.sub_q)

\* The pairs of queries that _add_subquery has compared in the current step.
compared == UNION {{<<x, L.sub_q>> : x \in Range(L.query_specs)} : L \in Range(impl.log)}

arg_types(q) == [i \in 1 .. Len(q.args) |-> q.args[i][2]]

arg_names(q) == {q.args[i][1] : i \in 1 .. Len(q.args)}

\* The arguments of q1 and q2 have the same names, and a name has the same type in both.
same_named_args(q1, q2) ==
    /\ arg_names(q1) = arg_names(q2)
    /\ \A i \in 1 .. Len(q1.args) : \A j \in 1 .. Len(q2.args) :
          q1.args[i][1] = q2.args[j][1] => q1.args[i][2] = q2.args[j][2]

\* C7 as stated: two queries are equivalent exactly when their return types match,
\* their argument lists match position by position by type, whatever the names, and
\* the solver proves their assumptions and their returns equal.
C7_PositionalEquivalence ==
    \A p \in compared :
        queries_equivalent(p[1], p[2]) <=>
            /\ p[1].ret.type = p[2].ret.type
            /\ arg_types(p[1]) = arg_types(p[2])
            /\ proved_equal(p[1], p[2])

\* C7: two queries are equivalent exactly when their return types match, they have
\* the same argument names with the same type for each name, in any order, and the
\* solver proves their assumptions and their returns equal.
C7_NamedEquivalence ==
    \A p \in compared :
        queries_equivalent(p[1], p[2]) <=>
            /\ p[1].ret.type = p[2].ret.type
            /\ same_named_args(p[1], p[2])
            /\ proved_equal(p[1], p[2])

\* Two equivalent queries that list the same arguments in different orders.
C7_Witness ==
    \E p \in compared :
        /\ queries_equivalent(p[1], p[2])
        /\ p[1].args # p[2].args
        /\ Len(p[1].args) = 2

\* The calls of the query called name in statement s.
calls_of(s, name) == {e \in all_exps(s) : e.tag = "ECall" /\ e.func = name}

\* Call e2 of qq passes to each parameter of qq what call e of sub_q passed to the
\* parameter of sub_q that has the same name.
permuted(e, e2, sub_q, qq) ==
    /\ Len(e2.args) = Len(qq.args)
    /\ \A i \in 1 .. Len(qq.args) :
          \E j \in 1 .. Len(sub_q.args) :
             sub_q.args[j][1] = qq.args[i][1] /\ e2.args[i] = e.args[j]

\* The call L of _add_subquery has rewritten the calls of sub_q and registered nothing.
deduplicated(L) ==
    /\ L.qq # <<>>
    /\ L.qq[1] \in Range(L.query_specs)
    /\ calls_of(L.result, L.sub_q.name) = {}
    /\ \A e \in calls_of(L.used_by, L.sub_q.name) :
          \E e2 \in calls_of(L.result, L.qq[1].name) : permuted(e, e2, L.sub_q, L.qq[1])
    /\ ~L.in_query_specs
    /\ ~L.in_query_impls

\* The call L of _add_subquery has registered sub_q and returned used_by as it was.
registered(L) ==
    /\ L.qq = <<>>
    /\ L.in_query_specs
    /\ L.in_query_impls
    /\ L.result = L.used_by

\* C8 as stated: _add_subquery rewrites the calls of sub_q if some query of query_specs
\* is equivalent to sub_q, and registers sub_q otherwise.
C8_DedupWheneverEquivalent ==
    \A L \in Range(impl.log) :
        IF \E x \in Range(L.query_specs) : queries_equivalent(x, L.sub_q)
        THEN deduplicated(L) ELSE registered(L)

\* C8: when the deduplicate-subqueries option is on and some query of query_specs is
\* equivalent to sub_q, _add_subquery rewrites every call of sub_q into a call of that
\* query with the arguments permuted by parameter name and registers nothing; in every
\* other case it registers sub_q and returns used_by unchanged.
C8_DedupWhenEnabled ==
    \A L \in Range(impl.log) :
        IF spec.dedup_queries /\ \E x \in Range(L.query_specs) : queries_equivalent(x, L.sub_q)
        THEN deduplicated(L) ELSE registered(L)

\* A call has been rewritten into a call of a query that lists its parameters in
\* another order, and another subquery has been registered.
C8_Witness ==
    /\ \E L \in Range(impl.log) :
          /\ deduplicated(L)
          /\ L.qq[1].args # L.sub_q.args
          /\ calls_of(L.used_by, L.sub_q.name) # {}
    /\ \E L \in Range(impl.log) : registered(L)

----------------------------------------------------------------------------
(* Properties of set_impl.                                                 *)

\* The stored variables that entry x of a rep duplicates: the same type and a
\* concretization expression that the state solver proves equal.
stored_equal(c, x) ==
    {y.v : y \in {z \in Range(c.concretization) : z.e.type = x.e.type /\ valid_EEq(x.e, z.e)}}

\* The stored variables whose expression is alpha-equivalent to that of entry x.
stored_alpha_equivalent(c, x) ==
    {y.v : y \in {z \in Range(c.concretization) : alpha_equivalent(x.e, z.e)}}

\* The call c of set_impl has replaced x.v by a variable of dup in the return
\* expression and has stored neither x nor an update statement for x.v.
coalesced(c, x, dup) ==
    /\ Len(c.installed) = Len(c.ret)
    /\ \A t \in 1 .. Len(c.ret) :
          c.ret[t].v = x.v => c.installed[t].v \in dup /\ c.installed[t].c = c.ret[t].c
    /\ x.v \notin {y.v : y \in Range(c.concretization_after)}
    /\ x.v \notin c.updated

\* C9 as stated: set_impl, in Implementation and in synthesize, drops every entry of
\* rep whose expression the state solver proves equal to a stored expression of the
\* same type, and appends every other entry.
C9_CoalesceBySolver ==
    \A c \in Range(impl.calls) \cup Range(drv.calls) :
        \A x \in Range(c.rep) :
            IF stored_equal(c, x) # {} THEN coalesced(c, x, stored_equal(c, x))
            ELSE x \in Range(c.concretization_after)

\* C9: Implementation.set_impl drops every entry of rep whose expression the state
\* solver proves equal to a stored expression of the same type, and the set_impl of
\* synthesize every entry whose expression is alpha-equivalent to a stored one; the
\* dropped variable is replaced in the installed return expression and gets no update
\* statement, and every other entry of rep is appended.
C9_CoalesceStorage ==
    /\ \A c \in Range(impl.calls) :
          \A x \in Range(c.rep) :
              IF stored_equal(c, x) # {} THEN coalesced(c, x, stored_equal(c, x))
              ELSE x \in Range(c.concretization_after)
    /\ \A c \in Range(drv.calls) :
          \A x \in Range(c.rep) :
              IF stored_alpha_equivalent(c, x) # {}
              THEN coalesced(c, x, stored_alpha_equivalent(c, x))
              ELSE x \in Range(c.concretization_after)

\* A call of Implementation.set_impl has dropped an entry whose expression is equal
\* to a stored one and not alpha-equivalent to it.
C9_Witness ==
    \E c \in Range(impl.calls) :
        \E x \in Range(c.rep) :
           /\ stored_equal(c, x) # {}
           /\ stored_alpha_equivalent(c, x) = {}
           /\ coalesced(c, x, stored_equal(c, x))
           /\ \E t \in 1 .. Len(c.ret) : c.ret[t].v = x.v

\* C10: every name of query_impls is the name of a query of query_specs, and the
\* implementation stored under it has the name and the argument list of that query;
\* the same holds between impls and specs in synthesize.
C10_ImplsHaveSpecs ==
    /\ \A qi \in Range(impl.query_impls) :
          \E q \in Range(impl.query_specs) : q.name = qi.name /\ q.args = qi.args
    /\ \A qi \in Range(drv.impls) :
          \E q \in Range(drv.specs) : q.name = qi.name /\ q.args = qi.args

\* A cleanup has removed a query and a helper query with arguments remains.
C10_Witness ==
    /\ pc = "ready"
    /\ impl.removed # {}
    /\ \E qi \in Range(impl.query_impls) :
          qi.args # <<>> /\ spec_of(impl, qi.name).visibility = "Internal"

----------------------------------------------------------------------------
(* Maintenance statements call registered queries only.                    *)

\* The names of the queries a statement calls.
called_names(s) == {e.func : e \in {x \in all_exps(s) : x.tag = "ECall"}}

\* The statements stored in updates and in handle_updates.
stored_statements(I) ==
    {I.updates[k] : k \in DOMAIN I.updates}
    \cup {I.handle_updates[k] : k \in DOMAIN I.handle_updates}

\* The statements stored in op_stms.
synthesize_stored_statements(D) ==
    UNION {{D.op_stms[v][o] : o \in DOMAIN D.op_stms[v]} : v \in DOMAIN D.op_stms}

\* C11: after every step of either driver, cleanup included, every query name called
\* from a statement stored in updates or in handle_updates (op_stms in synthesize) is
\* the name of a query of query_specs (specs in synthesize).
C11_CalledQueriesExist ==
    /\ \A s \in stored_statements(impl) : called_names(s) \subseteq query_names(impl)
    /\ ~drv.failed =>
          \A s \in synthesize_stored_statements(drv) :
             called_names(s) \subseteq synthesize_spec_names(drv)

\* A cleanup has collected queries, and both an update and a handle update that remain
\* call helper queries.
C11_Witness ==
    /\ pc = "ready"
    /\ impl.removed # {}
    /\ \E k \in DOMAIN impl.updates : called_names(impl.updates[k]) # {}
    /\ \E k \in DOMAIN impl.handle_updates : called_names(impl.handle_updates[k]) # {}

----------------------------------------------------------------------------
(* Public queries survive garbage collection.                              *)

\* C12: once construct_initial_implementation has added the public queries, every
\* public query of the input specification stays in query_specs, unchanged, and in
\* query_impls, whatever set_impl and cleanup do; in synthesize every root query is in
\* specs and in impls after every cleanup.
C12_PublicQueriesKept ==
    /\ pc \in {"handles", "ready", "installed", "emitted"} =>
          \A q \in Range(spec.queries) :
             q \in Range(impl.query_specs) /\ q.name \in impl_names(impl)
    /\ (drv.cleaned /\ ~drv.failed) =>
          root_queries \subseteq (synthesize_spec_names(drv) \cap synthesize_impl_names(drv))

\* A cleanup that ran after a set_impl has collected helper queries of a
\* specification with two public queries.
C12_Witness ==
    /\ pc = "ready"
    /\ nimp > 0
    /\ impl.removed # {}
    /\ Len(spec.queries) = 2

----------------------------------------------------------------------------
(* Argument names.                                                         *)

\* No two queries of the sequence qs have an argument of the same name.
args_globally_unique(qs) ==
    \A i, j \in 1 .. Len(qs) : i # j => arg_names(qs[i]) \cap arg_names(qs[j]) = {}

\* C13: after every step of either driver, and in the queries of the output
\* specification (query_impls), no two distinct queries, public or internal, have an
\* argument with the same name.
C13_ArgNamesGloballyUnique ==
    /\ args_globally_unique(impl.query_specs)
    /\ args_globally_unique(impl.query_impls)
    /\ ~drv.failed => args_globally_unique(drv.specs)

----------------------------------------------------------------------------
(* The jobs of synthesize.                                                 *)

\* The driver is in its main loop, at the check of the loop condition.
in_main_loop == pc = "synthesize" /\ ~drv.failed /\ goals_pushed = Len(spec.queries)

\* Every query of specs has exactly one job and every job is the job of a query of specs.
one_job_per_query(D) ==
    /\ job_names(D) = synthesize_spec_names(D)
    /\ \A i, j \in 1 .. Len(D.improvement_jobs) :
          i # j => D.improvement_jobs[i].q # D.improvement_jobs[j].q

\* C14: at the start of every iteration of the main loop of synthesize the jobs of
\* improvement_jobs correspond one to one to the queries of specs: every query has
\* exactly one job, and no job is left for a query that cleanup has removed.
C14_OneJobPerQuery == in_main_loop => one_job_per_query(drv)

\* An iteration has ended with a cleanup that removed a query, whose job it stopped,
\* and the loop goes on with at least two jobs.
C14_Witness ==
    /\ in_main_loop
    /\ drv.cleaned
    /\ drv.removed # {}
    /\ Len(drv.improvement_jobs) >= 2

\* An iteration of the main loop pops an item whose query is no longer in specs.
pops_stale_item ==
    /\ in_main_loop
    /\ loop_continues(drv)
    /\ drv.solutions_q # <<>>
    /\ drv'.solutions_q = Tail(drv.solutions_q)
    /\ Head(drv.solutions_q).q.name \notin synthesize_spec_names(drv)

\* C15: when the main loop pops an item (q, rep, ret) whose query name is no longer in
\* specs, set_impl is not called, no exception is raised, and specs, impls,
\* new_state_vars and op_stms are afterwards what cleanup alone makes of the state
\* before.
C15_StaleItemDropped ==
    [][pops_stale_item =>
          /\ drv'.calls = <<>>
          /\ ~drv'.failed
          /\ drv'.specs = synthesize_cleanup(drv).specs
          /\ drv'.impls = synthesize_cleanup(drv).impls
          /\ drv'.new_state_vars = synthesize_cleanup(drv).new_state_vars
          /\ drv'.op_stms = synthesize_cleanup(drv).op_stms]_vars

\* An iteration has just ended with cleanup and without a call of set_impl: the item
\* it popped was stale.  An earlier cleanup had removed the query of the item.
C15_Witness ==
    /\ in_main_loop
    /\ drv.cleaned
    /\ drv.calls = <<>>
    /\ nimp = MaxJobSteps
    /\ drv.solutions_q = <<>>

\* C16: when a job has ended without success, synthesize never returns a result: the
\* job stays in improvement_jobs until the driver stops it, in cleanup or at the end,
\* and stopping it raises an exception.
C16_AbnormalJobIsFatal ==
    drv.abnormal =>
        /\ pc # "returned"
        /\ ~drv.failed => \E j \in Range(drv.improvement_jobs) : j.status = "failed"

\* A cleanup has removed the query of a job that had ended without success, and
\* stopping that job has raised the exception.
C16_Witness ==
    /\ drv.abnormal
    /\ drv.failed
    /\ drv.removed # {}
    /\ \E j \in Range(drv.improvement_jobs) :
          j.status = "failed" /\ j.stop_requested /\ j.q \in drv.removed

\* C17: when an exception leaves synthesize (an exception of stop_job or of a
\* collaborator, a failed assertion of set_impl), the driver has requested the stop of
\* every job that remains in improvement_jobs: no job is left running with its stop
\* flag unset.
C17_StopRequestedBeforeRaise ==
    drv.failed =>
        \A j \in Range(drv.improvement_jobs) : j.status = "running" => j.stop_requested

\* Every job of improvement_jobs is running or has ended with success.
jobs_healthy(D) == \A j \in Range(D.improvement_jobs) : j.status \in {"running", "done"}

\* All jobs are done or the budget has expired.
loop_is_over(D) ==
    (\A j \in Range(D.improvement_jobs) : j.status \in {"done", "failed"}) \/ D.timed_out

----------------------------------------------------------------------------
(* Subquery introduction with the deduplicate-subqueries option off.       *)

\* C19 as stated: with the option off, _add_subquery rewrites the calls of a subquery
\* that is alpha-equivalent to a query of query_specs and registers nothing, and
\* registers every other subquery.
C19_AlphaEquivalenceFallback ==
    ~spec.dedup_queries =>
        \A L \in Range(impl.log) :
            IF \E x \in Range(L.query_specs) : alpha_equivalent_queries(x, L.sub_q)
            THEN deduplicated(L) ELSE registered(L)

\* C19: with the option off, _add_subquery never deduplicates: it compares the
\* subquery with no query, registers it in query_specs and query_impls and returns
\* used_by as it was, also when a query of query_specs is alpha-equivalent to it.
C19_NoDedupWhenDisabled ==
    ~spec.dedup_queries => \A L \in Range(impl.log) : registered(L)

\* With the option off, a subquery that is called from used_by and is alpha-equivalent
\* to a query of query_specs has been registered.
C19_Witness ==
    /\ ~spec.dedup_queries
    /\ \E L \in Range(impl.log) :
          /\ registered(L)
          /\ calls_of(L.used_by, L.sub_q.name) # {}
          /\ \E x \in Range(L.query_specs) : alpha_equivalent_queries(x, L.sub_q)

----------------------------------------------------------------------------
(* The order of construct_initial_implementation.                          *)

\* The keys of handle_updates that _setup_handle_updates fills.
handle_update_keys ==
    {<<spec.handles[i].t, op_specs[j].name>> :
        i \in 1 .. Len(spec.handles), j \in 1 .. Len(op_specs)}

\* C20: handle updates are set up exactly once, in the one step that follows the
\* addition of the last public query of the specification; no cleanup runs before
\* that step, from it on handle_updates has an entry for every operation and handle
\* type and never changes again, and the first cleanup keeps the specification and
\* the implementation of every query that a handle update calls.
C20_HandleUpdatesSetUpOnce ==
    /\ [][impl'.handle_updates # impl.handle_updates =>
             /\ pc = "construct"
             /\ public_added = Len(spec.queries)
             /\ pc' = "handles"]_vars
    /\ [][pc = "construct" => impl'.removed = {} /\ pc' \in {"construct", "handles"}]_vars
    /\ [][pc # "construct" => pc' # "construct"]_vars
    /\ [](pc \notin {"construct", "synthesize", "returned"} =>
             /\ DOMAIN impl.handle_updates = handle_update_keys
             /\ \A i \in 1 .. Len(spec.queries) : spec.queries[i].name \in query_names(impl))
    /\ [][pc = "handles" =>
             /\ pc' = "ready"
             /\ impl' = cleanup(begin_step(impl))
             /\ impl'.handle_updates = impl.handle_updates
             /\ cleanup_roots_handle_updates(impl) \subseteq
                    query_names(impl') \cap impl_names(impl')]_vars

\* The first cleanup has run on a specification with handles: the queries that the
\* handle updates call are kept, and the public queries alone do not reach them all.
C20_Witness ==
    /\ pc = "ready"
    /\ nimp = 0
    /\ cleanup_roots_handle_updates(impl) # {}
    /\ cleanup_roots_handle_updates(impl) \subseteq query_names(impl)
    /\ ~(cleanup_roots_handle_updates(impl) \subseteq
            reachable_nodes(impl, cleanup_roots_public(impl)))

----------------------------------------------------------------------------
(* set_impl with a return expression of another type.                      *)

\* The calls of set_impl of the last step whose ret has another type than q.ret.
ill_typed_calls(calls) == {c \in Range(calls) : ret_type(c.ret) # c.q.ret.type}

\* C21 as stated: a call of set_impl whose ret has another type than the return
\* expression of q does not install ret as the implementation of q, neither in
\* Implementation.set_impl nor in the set_impl of synthesize, and the set_impl of
\* synthesize ends synthesize with an exception.
C21_IllTypedRetRejected ==
    /\ \A c \in ill_typed_calls(impl.calls) :
          ret_type(impl_of(impl, c.q.name).ret) = c.q.ret.type
    /\ \A c \in ill_typed_calls(drv.calls) :
          /\ drv.failed
          /\ \A qi \in Range(drv.impls) :
                qi.name = c.q.name => ret_type(qi.ret) = c.q.ret.type

----------------------------------------------------------------------------
(* rename_args.                                                            *)

\* Expression fv1 over the arguments args1 is expression fv over the arguments args
\* with the argument at each position renamed.
renamed_consistently(fv, args, fv1, args1) ==
    /\ fv1 \subseteq {args1[i][1] : i \in 1 .. Len(args1)}
    /\ \A i \in 1 .. Len(args) : (args1[i][1] \in fv1) <=> (args[i][1] \in fv)

\* C22: in the result of rename_args no argument name occurs in two queries; every
\* query keeps its name, its number of arguments and the type at each position; two
\* positions of a query have the same name after the call iff they had before; the
\* assumptions and the return expression read the renamed arguments where they read
\* the original ones; and a query none of whose argument names occurs more than once
\* in the input is returned unchanged.
C22_RenameArgsResolvesCollisions ==
    pc = "renamed" =>
        /\ Len(emitted) = Len(store)
        /\ \A i, j \in 1 .. Len(emitted) :
              i # j => arg_names(emitted[i]) \cap arg_names(emitted[j]) = {}
        /\ \A i \in 1 .. Len(store) :
              LET q == store[i]
                  r == emitted[i]
              IN /\ r.name = q.name
                 /\ Len(r.args) = Len(q.args)
                 /\ \A k \in 1 .. Len(q.args) : r.args[k][2] = q.args[k][2]
                 /\ \A k, l \in 1 .. Len(q.args) :
                       (r.args[k][1] = r.args[l][1]) <=> (q.args[k][1] = q.args[l][1])
                 /\ renamed_consistently(q.ret.fv, q.args, r.ret.fv, r.args)
                 /\ r.ret.type = q.ret.type
                 /\ Len(r.assumptions) = Len(q.assumptions)
                 /\ \A k \in 1 .. Len(q.assumptions) :
                       /\ r.assumptions[k].p = q.assumptions[k].p
                       /\ renamed_consistently(q.assumptions[k].fv, q.args,
                                               r.assumptions[k].fv, r.args)
                 /\ (\A a \in arg_names(q) : arg_hist(store, a) = 1) => r = q

\* rename_args has returned for two queries that share one argument name, which the
\* return expression of the first reads, and that have one argument each of their
\* own; the first query has been changed.
C22_Witness ==
    /\ pc = "renamed"
    /\ Len(store) = 2
    /\ Len(store[1].args) = 2
    /\ Len(store[2].args) = 2
    /\ Cardinality(arg_names(store[1]) \cap arg_names(store[2])) = 1
    /\ arg_names(store[1]) \cap arg_names(store[2]) \subseteq store[1].ret.fv
    /\ emitted[1] # store[1]
    /\ arg_names(emitted[1]) \cap arg_names(store[1]) # {}

----------------------------------------------------------------------------
(* safe_copy.                                                              *)

other_object(t) == IF t = "self" THEN "copy" ELSE "self"

\* C23: after c = impl.safe_copy(), a call of add_query, set_impl, _add_subquery or
\* cleanup on one of the two objects leaves query_specs, query_impls, concretization,
\* updates and handle_updates of the other as they were; and the copy starts with the
\* contents of impl.
C23_SafeCopyIndependent ==
    /\ [][pc = "copied" /\ pc' = "copied" =>
             contents(store', emitted'[other_object(emitted'.last)]) =
                contents(store, emitted[other_object(emitted'.last)])]_vars
    /\ [][pc = "ready" /\ pc' = "copied" =>
             /\ contents(store', emitted'.copy) = contents(store', emitted'.self)
             /\ view(store', emitted'.self, impl') = impl']_vars

\* Two methods have been called after the copy, one on each object, each has changed
\* the object it was called on, and the two objects differ in their query_specs and
\* query_impls.
C23_Witness ==
    /\ pc = "copied"
    /\ nrun = 2
    /\ contents(store, emitted.self) # contents(heap_of(impl), self_object)
    /\ contents(store, emitted.copy) # contents(heap_of(impl), self_object)
    /\ emitted.last = "self"
    /\ \A f \in {"query_specs", "query_impls"} :
          store[emitted.self[f]] # store[emitted.copy[f]]

----------------------------------------------------------------------------
(* The shape of the specification Implementation.code returns.             *)

\* C24: the specification code returns has the name, types, extern_funcs, header,
\* footer and docstring of the input specification, the concrete variables of
\* concretization as state variables, in order and with the types of their
\* expressions, no assumptions, the query implementations as its queries, each
\* without assumptions, and one operation per input operation, in order, with its
\* name, its arguments and no assumptions; and computing it leaves query_specs,
\* query_impls, concretization and handle_updates as they were.
C24_CodeShape ==
    /\ [](pc = "emitted" =>
             LET out == emitted.code
             IN /\ out.name = spec.name
                /\ out.types = spec.types
                /\ out.extern_funcs = spec.extern_funcs
                /\ out.header = spec.header
                /\ out.footer = spec.footer
                /\ out.docstring = spec.docstring
                /\ Len(out.statevars) = Len(impl.concretization)
                /\ \A i \in 1 .. Len(impl.concretization) :
                      out.statevars[i] = <<impl.concretization[i].v.id,
                                           impl.concretization[i].e.type>>
                /\ out.assumptions = <<>>
                /\ out.queries = impl.query_impls
                /\ \A q \in Range(out.queries) : q.assumptions = <<>>
                /\ {q.name : q \in Range(out.queries)} = query_names(impl)
                /\ Len(out.ops) = Len(spec.ops)
                /\ \A i \in 1 .. Len(spec.ops) :
                      /\ out.ops[i].name = spec.ops[i].name
                      /\ out.ops[i].args = spec.ops[i].args
                      /\ out.ops[i].assumptions = <<>>)
    /\ [][pc # "emitted" /\ pc' = "emitted" =>
             /\ impl'.query_specs = impl.query_specs
             /\ impl'.query_impls = impl.query_impls
             /\ impl'.concretization = impl.concretization
             /\ impl'.handle_updates = impl.handle_updates]_vars

\* code has returned for an implementation with handle updates, two operations with
\* assumptions, a helper query and a solution installed by set_impl.
C24_Witness ==
    /\ pc = "emitted"
    /\ nimp = 1
    /\ Len(spec.ops) = 2
    /\ \E i \in 1 .. Len(spec.ops) : spec.ops[i].assumptions # <<>>
    /\ DOMAIN impl.handle_updates # {}
    /\ Len(emitted.code.queries) > Len(spec.queries)
    /\ \E i \in 1 .. Len(emitted.code.ops) : emitted.code.ops[i].temps # <<>>

----------------------------------------------------------------------------
(* The solutions on the queue when the main loop is left.                  *)

\* C25 as stated: when synthesize returns after a main loop that ended because every
\* job was done, and not because the budget expired, solutions_q is empty: no
\* solution for a query that is still in specs is left on it.
C25_NoSolutionLost ==
    (pc = "returned" /\ ~drv.timed_out) =>
        \A item \in Range(drv.solutions_q) : item.q.name \notin synthesize_spec_names(drv)

----------------------------------------------------------------------------
(* Stopping a job that waits in put.                                       *)

\* C26 as stated: when no job has ended without success, a job whose stop flag
\* stop_job has set is done, so stop_job raises no exception: this holds also for a
\* job that was putting a solution on the full queue when the flag was set.
C26_StopCannotDeadlock ==
    ~drv.abnormal =>
        /\ ~drv.failed
        /\ \A j \in Range(drv.improvement_jobs) : j.stop_requested => j.status = "done"

----------------------------------------------------------------------------
(* The scopes of the declarations pull_temps hoists.                       *)

\* Every variable that the value of a declaration reads is free in statement s or is
\* declared by an earlier declaration.
well_scoped(decls, s) ==
    \A i \in 1 .. Len(decls) :
        exp_free_vars(decls[i].val) \subseteq
            stm_free_vars(s) \cup {decls[j].var : j \in 1 .. (i - 1)}

\* C27 as stated: every declaration pull_temps appends to decls_out reads only
\* variables that are free in the original statement and temporaries declared by an
\* earlier entry of decls_out, whatever the shape of the statement.
C27_HoistedDeclsWellScoped ==
    pc = "pulled" => well_scoped(emitted.decls, store)

----------------------------------------------------------------------------
(* The simplification step of _add_subquery.                               *)

\* C28: whatever the simplifier returns, after the step each assumption is the
\* simplified one if that is strictly smaller and the original one otherwise, so no
\* assumption is larger than before, the sum of the sizes has not grown, and the
\* "bad simplification" abort is not reached.
C28_SimplificationNeverEnlarges ==
    pc = "simplified" =>
        /\ Len(emitted.assumptions) = Len(store)
        /\ \A i \in 1 .. Len(store) :
              /\ emitted.assumptions[i].size <= store[i].e.size
              /\ emitted.assumptions[i] =
                    IF store[i].ee.size < store[i].e.size THEN store[i].ee ELSE store[i].e
        /\ emitted.a_size <= emitted.orig_a_size
        /\ ~emitted.bad_simplification

\* The step has run on two assumptions: the simplifier has returned a larger one for
\* the first and a smaller one for the second.
C28_Witness ==
    /\ pc = "simplified"
    /\ Len(store) = 2
    /\ store[1].ee.size > store[1].e.size
    /\ store[2].ee.size < store[2].e.size
    /\ emitted.a_size < emitted.orig_a_size

----------------------------------------------------------------------------
(* Equivalent specifications in synthesize.                                *)

\* C29: no two distinct queries of specs are equivalent to each other, two public
\* queries that compute the same result included, so that the assertion of set_impl
\* that at most one registered specification is equivalent to a new subquery never
\* fails (no exception leaves synthesize while every job is still running).
C29_AtMostOneEquivalentSpec ==
    pc = "synthesize" =>
        /\ \A i, j \in 1 .. Len(drv.specs) :
              i # j => ~equivalent(drv.specs[i], drv.specs[j])
        /\ ~(drv.failed /\ \A j \in Range(drv.improvement_jobs) : j.status = "running")

----------------------------------------------------------------------------
(* Shared storage.                                                         *)

\* C30: the concretization never holds two distinct concrete variables of one type
\* whose expressions the state solver proves equal, whatever add_query, set_impl and
\* cleanup have run, a set_impl whose rep has two entries with equal meanings included.
C30_NoDuplicatedStorage ==
    \A i, j \in 1 .. Len(impl.concretization) :
        (/\ i # j
         /\ impl.concretization[i].e.type = impl.concretization[j].e.type
         /\ valid_EEq(impl.concretization[i].e, impl.concretization[j].e))
        => impl.concretization[i].v = impl.concretization[j].v

====
